---- MODULE Spec2Model ----
(***************************************************************************)
(* A model of xlsxwriter/chart.py: the Chart aggregate, its setters, and   *)
(* the writers that turn it into the chart XML document.                   *)
(*                                                                         *)
(* Reading conventions.                                                    *)
(*  - The chart object is the record `chart`; a field holds UNSET until a  *)
(*    statement of the source assigns it.                                  *)
(*  - The document is the sequence `out` of tokens written by the XML      *)
(*    primitives _xml_start_tag, _xml_end_tag, _xml_empty_tag and          *)
(*    _xml_data_element, in the order of the calls.                        *)
(*  - The source reads the fields of one object both as r.f and as r['f']; *)
(*    both are modelled as the read of field f.  A parameter that a call   *)
(*    gives no argument for is None.                                       *)
(*  - A read that the interpreter rejects (an index past the end of a      *)
(*    list, a chart field that was never assigned, a field the object does *)
(*    not have, len() of None) is recorded in `faults` and yields None;    *)
(*    the writer is then followed to its end, so that the document `out`   *)
(*    extends the document the interpreter produced before the fault.      *)
(*  - None is NONE for text, NoId for a data id, <<>> for an optional      *)
(*    record or list (<<r>> when present).  Numbers are written as text by *)
(*    ToString.                                                            *)
(*  - A writer that only hands one element to an XML primitive is written  *)
(*    at its call site, as the primitive call it makes.                    *)
(***************************************************************************)
EXTENDS Integers, Sequences, FiniteSets, TLC

\* chart: the Chart object.  out, faults: what the last call wrote and the
\* reads it made that the interpreter rejects (a setter writes nothing).
\* emits: the number of documents emitted.  call: history of the last call
\* (its name, its argument, the series before it) and the formulas handed to
\* the data resolver so far.
VARIABLES chart, out, faults, emits, call

vars == <<chart, out, faults, emits, call>>

(***************************************************************************)
(* Bounds of the model.                                                    *)
(***************************************************************************)
MaxSeries == 2
MaxEmit == 2

(***************************************************************************)
(* Values.                                                                 *)
(***************************************************************************)
NONE == "None"
UNSET == "<unset>"
NOKEY == "<no key>"
NoId == -1

NumLits == {"1", "2"}
F1 == "Sheet1!$A$1:$A$2"
F2 == "Sheet1!$B$1:$B$2"
F2Eq == "=Sheet1!$B$1:$B$2"
Formulas == {F1, F2}

Truthy(s) == s \notin {NONE, "", "0", "False"}

(***************************************************************************)
(* Property Resolver (spec 4.1).  The resolvers are called by the setters  *)
(* but are not defined in chart.py.                                        *)
(***************************************************************************)
NoLine == [defined |-> FALSE, none |-> FALSE, color |-> NONE, width |-> 0, dash_type |-> NONE]
NoFill == [defined |-> FALSE, none |-> FALSE, color |-> NONE]

get_line_properties(line) ==
    IF line = <<>> THEN NoLine
    ELSE [defined |-> (line[1].none \/ line[1].color # NONE \/ line[1].width # 0
                         \/ line[1].dash_type # NONE),
          none |-> line[1].none, color |-> line[1].color,
          width |-> line[1].width, dash_type |-> line[1].dash_type]

get_fill_properties(fill) ==
    IF fill = <<>> THEN NoFill
    ELSE [defined |-> (fill[1].none \/ fill[1].color # NONE),
          none |-> fill[1].none, color |-> fill[1].color]

AutoMarker == [automatic |-> TRUE, type |-> NONE, size |-> 0, line |-> NoLine, fill |-> NoFill]

get_marker_properties(marker) ==
    IF marker = <<>> THEN <<AutoMarker>>
    ELSE <<[automatic |-> (marker[1].type = "automatic"), type |-> marker[1].type,
            size |-> marker[1].size,
            line |-> NoLine, fill |-> NoFill]>>

get_trendline_properties(trendline) ==
    IF trendline = <<>> THEN <<>>
    ELSE <<[name |-> NONE, type |-> trendline[1].type, order |-> trendline[1].order,
            period |-> trendline[1].period, forward |-> 0, backward |-> 0,
            line |-> NoLine, fill |-> NoFill]>>

get_error_bars_props(bars) ==
    IF bars = <<>> THEN <<>>
    ELSE <<[type |-> bars[1].type, direction |-> "both", endcap |-> TRUE,
            value |-> bars[1].value, line |-> NoLine, fill |-> NoFill]>>

get_points_properties(points) ==
    [i \in 1..Len(points) |->
        IF points[i] = <<>> THEN <<>>
        ELSE <<[line |-> NoLine, fill |-> get_fill_properties(points[i])]>>]

get_labels_properties(labels) ==
    IF labels = <<>> THEN <<>>
    ELSE IF ~(labels[1].value \/ labels[1].category \/ labels[1].position # NONE) THEN <<>>
    ELSE <<[position |-> labels[1].position, value |-> labels[1].value,
            category |-> labels[1].category, series_name |-> FALSE,
            percentage |-> FALSE, leader_lines |-> FALSE]>>

(***************************************************************************)
(* Data Reference Resolver (spec 4.2).  Called by add_series and set_title *)
(* but not defined in chart.py.                                            *)
(***************************************************************************)
list_to_formula(data) == data

process_names(name, name_formula) ==
    IF name \in Formulas /\ name_formula = NONE
    THEN [name |-> "", name_formula |-> name]
    ELSE [name |-> name, name_formula |-> name_formula]

HasId(c, formula) == formula \in DOMAIN c.formula_ids

get_data_id(c, formula, data) ==
    IF ~Truthy(formula) THEN [c |-> c, id |-> NoId]
    ELSE IF HasId(c, formula)
    THEN LET id == c.formula_ids[formula] IN
         [c |-> IF data # <<>> /\ c.formula_data[id + 1] = <<>>
                THEN [c EXCEPT !.formula_data[id + 1] = data]
                ELSE c,
          id |-> id]
    ELSE [c |-> [c EXCEPT !.formula_ids = (formula :> Len(c.formula_data)) @@ @,
                          !.formula_data = Append(@, data)],
          id |-> Len(c.formula_data)]

(***************************************************************************)
(* The XML token primitives (xmlwriter.XMLwriter, outside chart.py).  What *)
(* a writer does is the record w of the tokens it writes, w.out, and of    *)
(* the reads it makes that the interpreter rejects, w.f; a writer that     *)
(* assigns chart fields also gives the chart after it, w.c.  Written gives *)
(* what a sequence of statements does: the statements' tokens in order.    *)
(***************************************************************************)
Attr(name, val) == <<name, val>>

xml_declaration == [out |-> <<[k |-> "decl", n |-> "xml", a |-> <<>>]>>, f |-> {}]

xml_start_tag(tag, attributes) ==
    [out |-> <<[k |-> "start", n |-> tag, a |-> attributes]>>, f |-> {}]

xml_end_tag(tag) == [out |-> <<[k |-> "end", n |-> tag, a |-> <<>>]>>, f |-> {}]

xml_empty_tag(tag, attributes) ==
    [out |-> <<[k |-> "empty", n |-> tag, a |-> attributes]>>, f |-> {}]

xml_data_element(tag, data) ==
    [out |-> <<[k |-> "data", n |-> tag, a |-> <<Attr("#text", data)>>]>>, f |-> {}]

\* A return before anything is written; a rejected read.
Nothing == [out |-> <<>>, f |-> {}]

Fault(kind) == [out |-> <<>>, f |-> {kind}]

\* The read of a chart field that neither the constructor nor a setter
\* called so far has set: an AttributeError.
UnsetField == Fault("AttributeError: field not set")

RECURSIVE Concat(_, _)
Concat(parts, i) ==
    IF i > Len(parts) THEN <<>> ELSE parts[i].out \o Concat(parts, i + 1)

Written(parts) ==
    [out |-> Concat(parts, 1), f |-> UNION {parts[i].f : i \in 1..Len(parts)}]

\* A call's result, bound once and used by what follows the call; and the
\* object a writer leaves, with what the writer wrote.
With(result, Rest(_)) == Rest(result)

Keep(c, w) == [c |-> c, out |-> w.out, f |-> w.f]

(***************************************************************************)
(* Data references and caches.                                             *)
(***************************************************************************)
write_idx(val) == xml_empty_tag("c:idx", <<Attr("val", ToString(val))>>)

write_order(val) == xml_empty_tag("c:order", <<Attr("val", ToString(val))>>)

write_pt(idx, value) ==
    IF value = NONE THEN Nothing
    ELSE Written(<<xml_start_tag("c:pt", <<Attr("idx", ToString(idx))>>),
                   xml_data_element("c:v", value),
                   xml_end_tag("c:pt")>>)

\* data is <<>> for None, <<d>> for the list d; len(None) is rejected.
write_num_cache(data) ==
    LET count == IF data = <<>> THEN NONE ELSE ToString(Len(data[1]))
    IN Written(<<IF data = <<>> THEN Fault("TypeError") ELSE Nothing,
                 xml_start_tag("c:numCache", <<>>),
                 xml_data_element("c:formatCode", "General"),
                 xml_empty_tag("c:ptCount", <<Attr("val", count)>>),
                 xml_end_tag("c:numCache")>>)

write_str_cache(data) ==
    LET count == IF data = <<>> THEN NONE ELSE ToString(Len(data[1]))
    IN Written(<<IF data = <<>> THEN Fault("TypeError") ELSE Nothing,
                 xml_start_tag("c:strCache", <<>>),
                 xml_empty_tag("c:ptCount", <<Attr("val", count)>>),
                 IF data = <<>> THEN Nothing
                 ELSE Written([i \in 1..Len(data[1]) |-> write_pt(i - 1, data[1][i])]),
                 xml_end_tag("c:strCache")>>)

\* The leading '=' of a formula is stripped.
write_series_formula(formula) ==
    LET stripped == IF formula = F2Eq THEN F2 ELSE formula
    IN xml_data_element("c:f", stripped)

write_num_ref(formula, data, ref_type) ==
    Written(<<xml_start_tag("c:numRef", <<>>),
              write_series_formula(formula),
              IF ref_type = "num" THEN write_num_cache(data)
              ELSE IF ref_type = "str" THEN write_str_cache(data)
              ELSE Nothing,
              xml_end_tag("c:numRef")>>)

write_str_ref(formula, data, ref_type) ==
    Written(<<xml_start_tag("c:strRef", <<>>),
              write_series_formula(formula),
              IF ref_type = "num" THEN write_num_cache(data)
              ELSE IF ref_type = "str" THEN write_str_cache(data)
              ELSE Nothing,
              xml_end_tag("c:strRef")>>)

\* self.formula_data[data_id]: what the read does and the data it yields.
formula_data_at(c, data_id) ==
    IF data_id = NoId THEN [w |-> Fault("TypeError"), data |-> <<>>]
    ELSE IF data_id + 1 > Len(c.formula_data)
    THEN [w |-> Fault("IndexError"), data |-> <<>>]
    ELSE [w |-> Nothing, data |-> c.formula_data[data_id + 1]]

\* _get_data_type is not defined in chart.py (spec 4.3: the type is detected
\* from the first cached literal).
get_data_type(data) ==
    IF data = <<>> THEN "none"
    ELSE IF Len(data[1]) = 0 THEN "none"
    ELSE IF data[1][1] \in NumLits THEN "num"
    ELSE "str"

write_tx_value(title) ==
    Written(<<xml_start_tag("c:tx", <<>>),
              xml_data_element("c:v", title),
              xml_end_tag("c:tx")>>)

write_tx_formula(c, title, data_id) ==
    LET r == IF data_id # NoId THEN formula_data_at(c, data_id)
             ELSE [w |-> Nothing, data |-> <<>>]
    IN Written(<<r.w,
                 xml_start_tag("c:tx", <<>>),
                 write_str_ref(title, r.data, "str"),
                 xml_end_tag("c:tx")>>)

write_series_name(c, series) ==
    IF Truthy(series.name_formula)
    THEN write_tx_formula(c, series.name_formula, series.name_id)
    ELSE IF Truthy(series.name) THEN write_tx_value(series.name)
    ELSE Nothing

(***************************************************************************)
(* Shape formatting.  An object handed to _write_sp_pr is <<>> for the     *)
(* empty dict {} and <<o>> for an object o with the records o.line, o.fill.*)
(***************************************************************************)
get_color(color) == color

write_a_solid_fill(line) ==
    Written(<<xml_start_tag("a:solidFill", <<>>),
              IF Truthy(line.color)
              THEN xml_empty_tag("a:srgbClr", <<Attr("val", get_color(line.color))>>)
              ELSE Nothing,
              xml_end_tag("a:solidFill")>>)

\* Widths are whole points, so rounding to the nearest 0.25 keeps them.
write_a_ln(line) ==
    LET width == line.width
        attributes == IF width # 0 THEN <<Attr("w", ToString(12700 * width))>> ELSE <<>>
    IN Written(<<xml_start_tag("a:ln", attributes),
                 IF line.none THEN xml_empty_tag("a:noFill", <<>>)
                 ELSE IF Truthy(line.color) THEN write_a_solid_fill(line)
                 ELSE Nothing,
                 IF Truthy(line.dash_type)
                 THEN xml_empty_tag("a:prstDash", <<Attr("val", line.dash_type)>>)
                 ELSE Nothing,
                 xml_end_tag("a:ln")>>)

\* `defined is not None`: the test of the source holds for every record
\* that has the field, whatever its value.
DefinedIsNotNone(record) == record.defined \in BOOLEAN

write_sp_pr(series) ==
    Written(<<xml_start_tag("c:spPr", <<>>),
              IF series = <<>> THEN Fault("KeyError")
              ELSE IF "fill" \notin DOMAIN series[1] THEN Fault("KeyError")
              ELSE IF DefinedIsNotNone(series[1].fill)
              THEN IF series[1].fill.none THEN xml_empty_tag("a:noFill", <<>>)
                   ELSE write_a_solid_fill(series[1].fill)
              ELSE Nothing,
              IF series = <<>> THEN Nothing
              ELSE IF DefinedIsNotNone(series[1].line) THEN write_a_ln(series[1].line)
              ELSE Nothing,
              xml_end_tag("c:spPr")>>)

(***************************************************************************)
(* Series Emission Engine: the children of c:ser.                          *)
(***************************************************************************)
write_marker(c, marker) ==
    IF marker = <<>>
    THEN IF c.default_marker = UNSET THEN UnsetField ELSE Nothing
    ELSE IF marker[1].automatic THEN Nothing
    ELSE Written(<<xml_start_tag("c:marker", <<>>),
                   xml_empty_tag("c:symbol", <<Attr("val", marker[1].type)>>),
                   IF marker[1].size # 0
                   THEN xml_empty_tag("c:size", <<Attr("val", ToString(marker[1].size))>>)
                   ELSE Nothing,
                   write_sp_pr(marker),
                   xml_end_tag("c:marker")>>)

write_c_invert_if_negative(invert) ==
    IF ~invert THEN Nothing
    ELSE xml_empty_tag("c:invertIfNegative", <<Attr("val", "1")>>)

write_d_pt_point(index, point) ==
    Written(<<xml_start_tag("c:dPt", <<>>),
              write_idx(index),
              write_sp_pr(point),
              xml_end_tag("c:dPt")>>)

write_d_pt(points) ==
    IF points = <<>> THEN Nothing
    ELSE Written([i \in 1..Len(points) |->
                     IF points[i] = <<>> THEN Nothing
                     ELSE write_d_pt_point(i - 1, points[i])])

write_d_lbls(labels) ==
    IF labels = <<>> THEN Nothing
    ELSE LET l == labels[1]
         IN Written(<<xml_start_tag("c:dLbls", <<>>),
                      IF Truthy(l.position)
                      THEN xml_empty_tag("c:dLblPos", <<Attr("val", l.position)>>)
                      ELSE Nothing,
                      IF l.value THEN xml_empty_tag("c:showVal", <<Attr("val", "1")>>)
                      ELSE Nothing,
                      IF l.category
                      THEN xml_empty_tag("c:showCatName", <<Attr("val", "1")>>)
                      ELSE Nothing,
                      IF l.series_name
                      THEN xml_empty_tag("c:showSerName", <<Attr("val", "1")>>)
                      ELSE Nothing,
                      IF l.percentage
                      THEN xml_empty_tag("c:showPercent", <<Attr("val", "1")>>)
                      ELSE Nothing,
                      IF l.leader_lines
                      THEN xml_empty_tag("c:showLeaderLines", <<Attr("val", "1")>>)
                      ELSE Nothing,
                      xml_end_tag("c:dLbls")>>)

write_trendline(trendline) ==
    IF trendline = <<>> THEN Nothing
    ELSE LET t == trendline[1]
         IN Written(<<xml_start_tag("c:trendline", <<>>),
                      IF t.name = NONE THEN Nothing
                      ELSE xml_data_element("c:name", t.name),
                      write_sp_pr(trendline),
                      xml_empty_tag("c:trendlineType", <<Attr("val", t.type)>>),
                      IF t.type = "poly"
                      THEN xml_empty_tag("c:order", <<Attr("val", ToString(t.order))>>)
                      ELSE Nothing,
                      IF t.type = "movingAvg"
                      THEN xml_empty_tag("c:period", <<Attr("val", ToString(t.period))>>)
                      ELSE Nothing,
                      IF t.forward = 0 THEN Nothing
                      ELSE xml_empty_tag("c:forward", <<Attr("val", ToString(t.forward))>>),
                      IF t.backward = 0 THEN Nothing
                      ELSE xml_empty_tag("c:backward", <<Attr("val", ToString(t.backward))>>),
                      xml_end_tag("c:trendline")>>)

write_err_bars(direction, error_bars) ==
    IF error_bars = <<>> THEN Nothing
    ELSE LET b == error_bars[1]
         IN Written(<<xml_start_tag("c:errBars", <<>>),
                      xml_empty_tag("c:errDir", <<Attr("val", direction)>>),
                      xml_empty_tag("c:errBarType", <<Attr("val", b.direction)>>),
                      xml_empty_tag("c:errValType", <<Attr("val", b.type)>>),
                      IF ~b.endcap THEN xml_empty_tag("c:noEndCap", <<Attr("val", "1")>>)
                      ELSE Nothing,
                      IF b.type # "stdErr"
                      THEN xml_empty_tag("c:val", <<Attr("val", b.value)>>)
                      ELSE Nothing,
                      write_sp_pr(error_bars),
                      xml_end_tag("c:errBars")>>)

\* add_series stores a one-element tuple holding the dict of both error
\* bars (the trailing comma of line 116); the tuple has neither field, so
\* each read is rejected and yields None.
TupleField(t, name) == <<>>

write_error_bars(error_bars) ==
    IF error_bars = <<>> THEN Nothing
    ELSE LET x == TupleField(error_bars, "x_error_bars")
             y == TupleField(error_bars, "y_error_bars")
         IN Written(<<Fault("AttributeError"),
                      IF x # <<>> THEN write_err_bars("x", x) ELSE Nothing,
                      IF y # <<>> THEN write_err_bars("y", y) ELSE Nothing>>)

\* _write_cat without the return for a series that has no category formula.
write_cat_unguarded(c, series) ==
    LET formula == series.categories
        data_id == series.cat_data_id
    IN With(IF data_id # NoId /\ data_id # 0 THEN formula_data_at(c, data_id)
            ELSE [w |-> Nothing, data |-> <<>>],
            LAMBDA r :
                LET cat_type == get_data_type(r.data)
                IN Keep([c EXCEPT !.cat_has_num_fmt = IF cat_type = "str" THEN 0 ELSE 1],
                        Written(<<r.w,
                                  xml_start_tag("c:cat", <<>>),
                                  IF cat_type = "str"
                                  THEN write_str_ref(formula, r.data, cat_type)
                                  ELSE write_num_ref(formula, r.data, cat_type),
                                  xml_end_tag("c:cat")>>)))

\* `if data_id:` reads the cache for every id but None and 0.
write_cat(c, series) ==
    LET formula == series.categories
        data_id == series.cat_data_id
    IN With(IF data_id # NoId /\ data_id # 0 THEN formula_data_at(c, data_id)
            ELSE [w |-> Nothing, data |-> <<>>],
            LAMBDA r :
                LET cat_type == get_data_type(r.data)
                IN IF ~Truthy(formula) THEN Keep(c, r.w)
                   ELSE Keep([c EXCEPT !.cat_has_num_fmt =
                                           IF cat_type = "str" THEN 0 ELSE 1],
                             Written(<<r.w,
                                       xml_start_tag("c:cat", <<>>),
                                       IF cat_type = "str"
                                       THEN write_str_ref(formula, r.data, cat_type)
                                       ELSE write_num_ref(formula, r.data, cat_type),
                                       xml_end_tag("c:cat")>>)))

write_val(c, series) ==
    LET formula == series.values
        r == formula_data_at(c, series.val_data_id)
    IN Written(<<r.w,
                 xml_start_tag("c:val", <<>>),
                 write_num_ref(formula, r.data, "num"),
                 xml_end_tag("c:val")>>)

\* _write_ser writing the marker before the shape formatting.
write_ser_marker_first(c, series) ==
    LET index == c.series_index
    IN With(write_cat(c, series),
            LAMBDA cat :
                Keep([cat.c EXCEPT !.series_index = index + 1],
                     Written(<<xml_start_tag("c:ser", <<>>),
                               write_idx(index),
                               write_order(index),
                               write_series_name(c, series),
                               write_marker(c, series.marker),
                               write_sp_pr(<<series>>),
                               write_c_invert_if_negative(series.invert_if_neg),
                               write_d_pt(series.points),
                               write_d_lbls(series.labels),
                               write_trendline(series.trendline),
                               write_error_bars(series.error_bars),
                               cat,
                               write_val(c, series),
                               xml_end_tag("c:ser")>>)))

write_ser(c, series) ==
    LET index == c.series_index
    IN With(write_cat(c, series),
            LAMBDA cat :
                Keep([cat.c EXCEPT !.series_index = index + 1],
                     Written(<<xml_start_tag("c:ser", <<>>),
                               write_idx(index),
                               write_order(index),
                               write_series_name(c, series),
                               write_sp_pr(<<series>>),
                               write_marker(c, series.marker),
                               write_c_invert_if_negative(series.invert_if_neg),
                               write_d_pt(series.points),
                               write_d_lbls(series.labels),
                               write_trendline(series.trendline),
                               write_error_bars(series.error_bars),
                               cat,
                               write_val(c, series),
                               xml_end_tag("c:ser")>>)))

(***************************************************************************)
(* Axis Model.  _convert_axis_args is not defined in chart.py (spec 3): an *)
(* axis is {} until its setter is called, then a record with every field   *)
(* defaulted.                                                              *)
(***************************************************************************)
AxisDefaults ==
    [configured |-> TRUE, position |-> NONE, reverse |-> FALSE, visible |-> TRUE,
     min |-> NONE, max |-> NONE, log_base |-> NONE,
     major_gridlines |-> <<>>, minor_gridlines |-> <<>>,
     formula |-> NONE, data_id |-> NoId, name |-> NONE, name_font |-> <<>>,
     num_format |-> "General", defaults |-> [num_format |-> "General"],
     num_format_linked |-> FALSE, major_tick_mark |-> NONE, label_position |-> NONE,
     num_font |-> <<>>, crossing |-> NONE, major_unit |-> NONE, minor_unit |-> NONE,
     major_unit_type |-> NONE, minor_unit_type |-> NONE]

\* The axis {}: every read of it is rejected and yields None.
EmptyAxis ==
    [AxisDefaults EXCEPT !.configured = FALSE, !.visible = FALSE,
                         !.num_format = NONE, !.defaults = [num_format |-> NONE]]

AxisRead(axis) == IF axis.configured THEN Nothing ELSE Fault("KeyError")

(***************************************************************************)
(* Chart.__init__                                                          *)
(***************************************************************************)
ChartInit ==
    [series |-> <<>>,
     embedded |-> 0,
     series_index |-> 0,
     style_id |-> 2,
     axis_ids |-> <<>>,
     axis2_ids |-> <<>>,
     cat_has_num_fmt |-> 0,
     requires_category |-> 0,
     legend_position |-> "right",
     cat_axis_position |-> "b",
     val_axis_position |-> "l",
     formula_ids |-> <<>>,
     formula_data |-> <<>>,
     horiz_cat_axis |-> 0,
     horiz_val_axis |-> 1,
     protection |-> 0,
     show_blanks |-> "gap",
     show_hidden_data |-> 0,
     show_crosses |-> 1,
     title_name |-> UNSET,
     title_formula |-> UNSET,
     title_data_id |-> NoId,
     title_font |-> <<>>,
     chartarea |-> <<>>,
     plotarea |-> <<>>,
     x_axis |-> EmptyAxis,
     y_axis |-> EmptyAxis,
     y2_axis |-> EmptyAxis,
     x2_axis |-> EmptyAxis,
     table |-> <<>>,
     width |-> <<480>>,
     height |-> <<288>>,
     x_scale |-> <<1>>,
     y_scale |-> <<1>>,
     x_offset |-> <<0>>,
     y_offset |-> <<0>>,
     up_down_bars |-> <<>>,
     cross_between |-> UNSET,
     default_marker |-> UNSET]

(***************************************************************************)
(* Chart.add_series                                                        *)
(***************************************************************************)
NoOptions ==
    [values |-> NOKEY, categories |-> NONE, name |-> NONE, name_formula |-> NONE,
     categories_data |-> <<>>, values_data |-> <<>>, name_data |-> <<>>,
     line |-> <<>>, border |-> <<>>, fill |-> <<>>, marker |-> <<>>,
     trendline |-> <<>>, y_error_bars |-> <<>>, x_error_bars |-> <<>>,
     points |-> <<>>, data_labels |-> <<>>, invert_if_negative |-> FALSE,
     x2_axis |-> FALSE, y2_axis |-> FALSE]

EmptyMap == [none |-> FALSE, color |-> NONE, width |-> 0, dash_type |-> NONE]

MakeSeries(c, options) ==
    LET values == list_to_formula(options.values)
        categories == list_to_formula(options.categories)
        names == process_names(options.name, options.name_formula)
        r1 == get_data_id(c, categories, options.categories_data)
        r2 == get_data_id(r1.c, values, options.values_data)
        r3 == get_data_id(r2.c, names.name_formula, options.name_data)
        line0 == get_line_properties(options.line)
        line == IF options.border # <<>> /\ options.border[1] # EmptyMap
                THEN get_line_properties(options.border) ELSE line0
        series ==
            [values |-> values,
             categories |-> categories,
             name |-> names.name,
             name_formula |-> names.name_formula,
             name_id |-> r3.id,
             val_data_id |-> r2.id,
             cat_data_id |-> r1.id,
             line |-> line,
             fill |-> get_fill_properties(options.fill),
             marker |-> get_marker_properties(options.marker),
             trendline |-> get_trendline_properties(options.trendline),
             labels |-> get_labels_properties(options.data_labels),
             invert_if_neg |-> options.invert_if_negative,
             x2_axis |-> options.x2_axis,
             y2_axis |-> options.y2_axis,
             points |-> get_points_properties(options.points),
             error_bars |-> <<[x_error_bars |-> get_error_bars_props(options.x_error_bars),
                               y_error_bars |-> get_error_bars_props(options.y_error_bars)]>>]
    IN [r3.c EXCEPT !.series = Append(@, series)]

\* add_series without the test for the 'values' key.
add_series_unchecked(c, options) ==
    MakeSeries(c, [options EXCEPT !.values = IF @ = NOKEY THEN NONE ELSE @])

add_series(c, options) ==
    IF options.values = NOKEY THEN c
    ELSE MakeSeries(c, options)

(***************************************************************************)
(* Chart.set_title                                                         *)
(***************************************************************************)
\* set_title with the literal name handed to the resolver in place of the
\* formula.
set_title_name_id(c, options) ==
    LET names == process_names(options.name, options.name_formula)
        r == get_data_id(c, names.name, options.data)
    IN [r.c EXCEPT !.title_name = names.name,
                   !.title_formula = names.name_formula,
                   !.title_data_id = r.id,
                   !.title_font = <<>>]

set_title(c, options) ==
    LET names == process_names(options.name, options.name_formula)
        r == get_data_id(c, names.name_formula, options.data)
    IN [r.c EXCEPT !.title_name = names.name,
                   !.title_formula = names.name_formula,
                   !.title_data_id = r.id,
                   !.title_font = <<>>]

(***************************************************************************)
(* Chart.set_x_axis, set_y_axis, set_x2_axis, set_y2_axis.  An option is   *)
(* <<>> when its key is absent and <<v>> when it is given.                 *)
(***************************************************************************)
NoAxisOptions ==
    [reverse |-> <<>>, visible |-> <<>>, position |-> <<>>, crossing |-> <<>>,
     name |-> <<>>, name_formula |-> <<>>, num_format |-> <<>>,
     num_format_linked |-> <<>>, label_position |-> <<>>]

Override(option, current) == IF option = <<>> THEN current ELSE option[1]

convert_axis_args(c, axis, options) ==
    LET base == IF axis.configured THEN axis ELSE AxisDefaults
        names == process_names(Override(options.name, base.name),
                               Override(options.name_formula, NONE))
        formula == IF names.name_formula = NONE THEN base.formula ELSE names.name_formula
        r == get_data_id(c, formula, <<>>)
    IN [c |-> r.c,
        axis |-> [base EXCEPT !.reverse = Override(options.reverse, @),
                              !.visible = Override(options.visible, @),
                              !.position = Override(options.position, @),
                              !.crossing = Override(options.crossing, @),
                              !.name = names.name,
                              !.formula = formula,
                              !.data_id = r.id,
                              !.num_format = Override(options.num_format, @),
                              !.num_format_linked = Override(options.num_format_linked, @),
                              !.label_position = Override(options.label_position, @)]]

set_x_axis(c, options) ==
    LET r == convert_axis_args(c, c.x_axis, options) IN [r.c EXCEPT !.x_axis = r.axis]

set_y_axis(c, options) ==
    LET r == convert_axis_args(c, c.y_axis, options) IN [r.c EXCEPT !.y_axis = r.axis]

set_x2_axis(c, options) ==
    LET r == convert_axis_args(c, c.x2_axis, options) IN [r.c EXCEPT !.x2_axis = r.axis]

set_y2_axis(c, options) ==
    LET r == convert_axis_args(c, c.y2_axis, options) IN [r.c EXCEPT !.y2_axis = r.axis]

\* set_style without the range test.
set_style_unchecked(c, style_id) ==
    [c EXCEPT !.style_id = IF style_id = <<>> THEN 2 ELSE style_id[1]]

\* Chart.set_style: None is <<>>, an id n is <<n>>.
set_style(c, style_id) ==
    LET given == IF style_id = <<>> THEN 2 ELSE style_id[1]
    IN [c EXCEPT !.style_id = IF given < 0 \/ given > 42 THEN 2 ELSE given]

\* Chart.show_blanks_as: the membership test uses the literal key 'option'.
show_blanks_as(c, option) ==
    LET valid_options == {"gap", "zero", "span"}
    IN IF ~Truthy(option) THEN c
       ELSE IF "option" \notin valid_options THEN c
       ELSE [c EXCEPT !.show_blanks = option]

\* Chart.set_legend: the position is <<>> when the key is absent.
\* legend_delete_series is stored but read nowhere.
set_legend(c, options) ==
    [c EXCEPT !.legend_position = IF options.position = <<>> THEN "right"
                                  ELSE options.position[1]]

\* Chart.set_size: an option and a size field are <<v>> for the value v and
\* <<>> for None, which options.get yields for an absent key.  The last
\* assignment stores the y_offset option in x_offset.
set_size(c, options) ==
    [c EXCEPT !.width = options.width,
              !.height = options.height,
              !.x_scale = options.x_scale,
              !.y_scale = options.y_scale,
              !.x_offset = options.y_offset]

\* The line of one bar of set_up_down_bars: 'border' replaces 'line', and a
\* 'fill' key is resolved as a line and stored as the line.  A bar is <<>>
\* when its key is absent, and so is each of its keys; a line that was not
\* resolved is None (<<>>).
BarLine(bar) ==
    IF bar = <<>> THEN <<>>
    ELSE LET line == IF bar[1].border # <<>> THEN bar[1].border ELSE bar[1].line
         IN IF bar[1].fill # <<>> THEN <<get_line_properties(bar[1].fill)>>
            ELSE IF line # <<>> THEN <<get_line_properties(line)>>
            ELSE <<>>

\* Chart.set_up_down_bars: None is <<>>.  up_fill and down_fill keep None.
\* The field up_down_bars is <<>> until the setter stores a record in it.
set_up_down_bars(c, options) ==
    IF options = <<>> THEN c
    ELSE [c EXCEPT !.up_down_bars =
              <<[up   |-> [line |-> BarLine(options[1].up), fill |-> <<>>],
                 down |-> [line |-> BarLine(options[1].down), fill |-> <<>>]]>>]

(***************************************************************************)
(* Axis Emission Engine: the children of an axis element.                  *)
(***************************************************************************)
write_axis_id(val) == xml_empty_tag("c:axId", <<Attr("val", val)>>)

write_cross_axis(val) == xml_empty_tag("c:crossAx", <<Attr("val", val)>>)

\* The read of axis_ids[k] yielding the first id of the pair for every k.
axis_id_at_first(axis_ids, k) ==
    IF k + 1 > Len(axis_ids) THEN [w |-> Fault("IndexError"), id |-> NONE]
    ELSE [w |-> Nothing, id |-> ToString(axis_ids[1])]

\* axis_ids[k] (k counted from 0): what the read does and the id it yields.
axis_id_at(axis_ids, k) ==
    IF k + 1 > Len(axis_ids) THEN [w |-> Fault("IndexError"), id |-> NONE]
    ELSE [w |-> Nothing, id |-> ToString(axis_ids[k + 1])]

write_scaling(reverse, min_val, max_val, log_base) ==
    Written(<<xml_start_tag("c:scaling", <<>>),
              IF ~Truthy(log_base) THEN Nothing
              ELSE xml_empty_tag("c:logBase", <<Attr("val", log_base)>>),
              xml_empty_tag("c:orientation",
                            <<Attr("val", IF reverse THEN "maxMin" ELSE "minMax")>>),
              IF max_val = NONE THEN Nothing
              ELSE xml_empty_tag("c:max", <<Attr("val", max_val)>>),
              IF min_val = NONE THEN Nothing
              ELSE xml_empty_tag("c:min", <<Attr("val", min_val)>>),
              xml_end_tag("c:scaling")>>)

\* _write_delete writing the value 0.
write_delete_zero(val) == xml_empty_tag("c:delete", <<Attr("val", "0")>>)

write_delete(val) == xml_empty_tag("c:delete", <<Attr("val", ToString(val))>>)

write_axis_pos(val, reverse) ==
    LET v1 == IF reverse /\ val = "l" THEN "r" ELSE val
        v2 == IF reverse /\ v1 = "b" THEN "t" ELSE v1
    IN xml_empty_tag("c:axPos", <<Attr("val", v2)>>)

\* _write_number_format without the caller's override of sourceLinked.
write_number_format_unforced(axis) ==
    LET format_code == axis.num_format
        linked0 == IF format_code # axis.defaults.num_format THEN "0" ELSE "1"
    IN xml_empty_tag("c:numFmt", <<Attr("formatCode", format_code),
                                   Attr("sourceLinked", linked0)>>)

write_number_format(axis) ==
    LET format_code == axis.num_format
        linked0 == IF format_code # axis.defaults.num_format THEN "0" ELSE "1"
        source_linked == IF axis.num_format_linked THEN "1" ELSE linked0
    IN xml_empty_tag("c:numFmt", <<Attr("formatCode", format_code),
                                   Attr("sourceLinked", source_linked)>>)

write_cat_number_format(c, axis) ==
    LET format_code == axis.num_format
        default_format == (format_code = axis.defaults.num_format)
        linked0 == IF default_format THEN "1" ELSE "0"
        source_linked == IF axis.num_format_linked THEN "1" ELSE linked0
    IN IF c.cat_has_num_fmt = 0 /\ default_format THEN Nothing
       ELSE xml_empty_tag("c:numFmt", <<Attr("formatCode", format_code),
                                        Attr("sourceLinked", source_linked)>>)

write_major_tick_mark(val) ==
    IF ~Truthy(val) THEN Nothing
    ELSE xml_empty_tag("c:majorTickMark", <<Attr("val", val)>>)

write_tick_label_pos(val) ==
    LET v == IF val = NONE \/ val = "continue_to" THEN "continueTo" ELSE val
    IN xml_empty_tag("c:tickLblPos", <<Attr("val", v)>>)

write_crosses(val) ==
    xml_empty_tag("c:crosses", <<Attr("val", IF val = NONE THEN "autoZero" ELSE val)>>)

write_c_crosses_at(val) == xml_empty_tag("c:crossesAt", <<Attr("val", val)>>)

write_major_gridlines(gridlines) ==
    IF gridlines = <<>> THEN Nothing
    ELSE IF ~gridlines[1].visible THEN Nothing
    ELSE IF gridlines[1].line.defined
    THEN Written(<<xml_start_tag("c:majorGridlines", <<>>),
                   write_sp_pr(gridlines),
                   xml_end_tag("c:majorGridlines")>>)
    ELSE xml_empty_tag("c:majorGridlines", <<>>)

\* _write_minor_gridlines writing the open element whatever the line record.
write_minor_gridlines_open(gridlines) ==
    IF gridlines = <<>> THEN Nothing
    ELSE IF ~gridlines[1].visible THEN Nothing
    ELSE Written(<<xml_start_tag("c:minorGridlines", <<>>),
                   write_sp_pr(gridlines),
                   xml_end_tag("c:minorGridlines")>>)

write_minor_gridlines(gridlines) ==
    IF gridlines = <<>> THEN Nothing
    ELSE IF ~gridlines[1].visible THEN Nothing
    ELSE IF gridlines[1].line.defined
    THEN Written(<<xml_start_tag("c:minorGridlines", <<>>),
                   write_sp_pr(gridlines),
                   xml_end_tag("c:minorGridlines")>>)
    ELSE xml_empty_tag("c:minorGridlines", <<>>)

write_cross_between(c) ==
    LET val == IF c.cross_between = UNSET \/ ~Truthy(c.cross_between)
               THEN "between" ELSE c.cross_between
    IN Written(<<IF c.cross_between = UNSET THEN UnsetField ELSE Nothing,
                 xml_empty_tag("c:crossBetween", <<Attr("val", val)>>)>>)

write_c_major_unit(val) ==
    IF ~Truthy(val) THEN Nothing ELSE xml_empty_tag("c:majorUnit", <<Attr("val", val)>>)

write_c_minor_unit(val) ==
    IF ~Truthy(val) THEN Nothing ELSE xml_empty_tag("c:minorUnit", <<Attr("val", val)>>)

(***************************************************************************)
(* Titles and fonts.  A font is <<>> for None or <<f>>.  The two attribute *)
(* helpers are not defined in chart.py (spec 4.1).                         *)
(***************************************************************************)
get_font_style_attributes(font) ==
    IF font = <<>> THEN <<>>
    ELSE IF font[1].size = 0 THEN <<>>
    ELSE <<Attr("sz", ToString(font[1].size))>>

get_font_latin_attributes(font) ==
    IF font = <<>> THEN <<>>
    ELSE IF font[1].name = NONE THEN <<>>
    ELSE <<Attr("typeface", font[1].name)>>

\* _write_a_latin reads the name `_`, which nothing binds.
write_a_latin(attributes) ==
    Written(<<Fault("NameError"), xml_empty_tag("a:latin", <<>>)>>)

write_a_body_pr(horiz) ==
    xml_empty_tag("a:bodyPr",
                  IF ~horiz THEN << <<>> >>
                  ELSE <<Attr("rot", "-5400000"), Attr("vert", "horz")>>)

write_a_def_rpr(font) ==
    LET style_attributes == get_font_style_attributes(font)
        latin_attributes == get_font_latin_attributes(font)
        has_color == font # <<>> /\ Truthy(font[1].color)
    IN IF latin_attributes # <<>> \/ has_color
       THEN Written(<<xml_start_tag("a:defRPr", style_attributes),
                      IF has_color THEN write_a_solid_fill([color |-> font[1].color])
                      ELSE Nothing,
                      IF latin_attributes # <<>> THEN write_a_latin(latin_attributes)
                      ELSE Nothing,
                      xml_end_tag("a:defRPr")>>)
       ELSE xml_empty_tag("a:defRPr", style_attributes)

\* The style attributes are nested in the lang attribute's tuple (line 1626).
write_a_r_pr(font) ==
    LET style_attributes == <<Attr("lang", "en-US")>> \o get_font_style_attributes(font)
        latin_attributes == get_font_latin_attributes(font)
        has_color == font # <<>> /\ Truthy(font[1].color)
    IN IF latin_attributes # <<>> \/ has_color
       THEN Written(<<xml_start_tag("a:rPr", style_attributes),
                      IF has_color THEN write_a_solid_fill([color |-> font[1].color])
                      ELSE Nothing,
                      IF latin_attributes # <<>> THEN write_a_latin(latin_attributes)
                      ELSE Nothing,
                      xml_end_tag("a:rPr")>>)
       ELSE xml_empty_tag("a:rPr", style_attributes)

write_a_r(title, font) ==
    Written(<<xml_start_tag("a:r", <<>>),
              write_a_r_pr(font),
              xml_data_element("a:t", title),
              xml_end_tag("a:r")>>)

write_a_p_pr_rich(font) ==
    Written(<<xml_start_tag("a:pPr", <<>>), write_a_def_rpr(font), xml_end_tag("a:pPr")>>)

write_a_p_rich(title, font) ==
    Written(<<xml_start_tag("a:p", <<>>),
              write_a_p_pr_rich(font),
              write_a_r(title, font),
              xml_end_tag("a:p")>>)

\* _write_a_p_pr_formula writes what _write_a_p_pr_rich writes.
write_a_p_formula(font) ==
    Written(<<xml_start_tag("a:p", <<>>),
              write_a_p_pr_rich(font),
              xml_empty_tag("a:endParaRPr", <<Attr("lang", "en-US")>>),
              xml_end_tag("a:p")>>)

write_rich(title, horiz, font) ==
    Written(<<xml_start_tag("c:rich", <<>>),
              write_a_body_pr(horiz),
              xml_empty_tag("a:lstStyle", <<>>),
              write_a_p_rich(title, font),
              xml_end_tag("c:rich")>>)

write_tx_rich(title, horiz, font) ==
    Written(<<xml_start_tag("c:tx", <<>>),
              write_rich(title, horiz, font),
              xml_end_tag("c:tx")>>)

write_tx_pr(horiz, font) ==
    Written(<<xml_start_tag("c:txPr", <<>>),
              write_a_body_pr(horiz),
              xml_empty_tag("a:lstStyle", <<>>),
              write_a_p_formula(font),
              xml_end_tag("c:txPr")>>)

write_title_rich(title, horiz, font) ==
    Written(<<xml_start_tag("c:title", <<>>),
              write_tx_rich(title, horiz, font),
              xml_empty_tag("c:layout", <<>>),
              xml_end_tag("c:title")>>)

write_title_formula(c, title, data_id, horiz, font) ==
    Written(<<xml_start_tag("c:title", <<>>),
              write_tx_formula(c, title, data_id),
              xml_empty_tag("c:layout", <<>>),
              write_tx_pr(horiz, font),
              xml_end_tag("c:title")>>)

write_axis_font(font) ==
    IF font = <<>> THEN Nothing
    ELSE Written(<<xml_start_tag("c:txPr", <<>>),
                   xml_empty_tag("a:bodyPr", <<>>),
                   xml_empty_tag("a:lstStyle", <<>>),
                   xml_start_tag("a:p", <<>>),
                   write_a_p_pr_rich(font),
                   xml_empty_tag("a:endParaRPr", <<Attr("lang", "en-US")>>),
                   xml_end_tag("a:p"),
                   xml_end_tag("c:txPr")>>)

(***************************************************************************)
(* Axis Emission Engine: the four axis writers.  args is the dict of the   *)
(* call: x_axis, y_axis, axis_ids and position (NONE when the caller gives *)
(* none).                                                                  *)
(***************************************************************************)
Horiz(flag) == flag # 0

FontText(font) == IF font = <<>> THEN NONE ELSE "<font>"

\* _write_cat_axis flipping the position by the category axis's own flag.
write_cat_axis_own_reverse(c, args) ==
    LET x_axis == args.x_axis
        y_axis == args.y_axis
        axis_ids == args.axis_ids
        horiz == Horiz(c.horiz_cat_axis)
        position == IF Truthy(x_axis.position) THEN x_axis.position
                    ELSE c.cat_axis_position
        id0 == axis_id_at(axis_ids, 0)
        id1 == axis_id_at(axis_ids, 1)
    IN IF Len(axis_ids) = 0 THEN Nothing
       ELSE Written(<<
           AxisRead(x_axis),
           AxisRead(y_axis),
           xml_start_tag("c:catAx", <<>>),
           id0.w,
           write_axis_id(id0.id),
           write_scaling(x_axis.reverse, NONE, NONE, NONE),
           IF ~x_axis.visible THEN write_delete(1) ELSE Nothing,
           write_axis_pos(position, x_axis.reverse),
           write_major_gridlines(x_axis.major_gridlines),
           write_minor_gridlines(x_axis.minor_gridlines),
           IF Truthy(x_axis.formula)
           THEN write_title_formula(c, x_axis.formula, x_axis.data_id, horiz,
                                    x_axis.name_font)
           ELSE IF Truthy(x_axis.name)
           THEN write_title_rich(x_axis.name, horiz, x_axis.name_font)
           ELSE Nothing,
           write_cat_number_format(c, x_axis),
           write_major_tick_mark(x_axis.major_tick_mark),
           write_tick_label_pos(x_axis.label_position),
           write_axis_font(x_axis.num_font),
           id1.w,
           write_cross_axis(id1.id),
           IF c.show_crosses # 0 \/ x_axis.visible
           THEN IF y_axis.crossing = NONE \/ y_axis.crossing = "max"
                THEN write_crosses(y_axis.crossing)
                ELSE write_c_crosses_at(y_axis.crossing)
           ELSE Nothing,
           xml_empty_tag("c:auto", <<Attr("val", "1")>>),
           xml_empty_tag("c:lblAlgn", <<Attr("val", "ctr")>>),
           xml_empty_tag("c:lblOffset", <<Attr("val", "100")>>),
           xml_end_tag("c:catAx")>>)

write_cat_axis(c, args) ==
    LET x_axis == args.x_axis
        y_axis == args.y_axis
        axis_ids == args.axis_ids
        horiz == Horiz(c.horiz_cat_axis)
        position == IF Truthy(x_axis.position) THEN x_axis.position
                    ELSE c.cat_axis_position
        id0 == axis_id_at(axis_ids, 0)
        id1 == axis_id_at(axis_ids, 1)
    IN IF Len(axis_ids) = 0 THEN Nothing
       ELSE Written(<<
           AxisRead(x_axis),
           AxisRead(y_axis),
           xml_start_tag("c:catAx", <<>>),
           id0.w,
           write_axis_id(id0.id),
           write_scaling(x_axis.reverse, NONE, NONE, NONE),
           IF ~x_axis.visible THEN write_delete(1) ELSE Nothing,
           write_axis_pos(position, y_axis.reverse),
           write_major_gridlines(x_axis.major_gridlines),
           write_minor_gridlines(x_axis.minor_gridlines),
           IF Truthy(x_axis.formula)
           THEN write_title_formula(c, x_axis.formula, x_axis.data_id, horiz,
                                    x_axis.name_font)
           ELSE IF Truthy(x_axis.name)
           THEN write_title_rich(x_axis.name, horiz, x_axis.name_font)
           ELSE Nothing,
           write_cat_number_format(c, x_axis),
           write_major_tick_mark(x_axis.major_tick_mark),
           write_tick_label_pos(x_axis.label_position),
           write_axis_font(x_axis.num_font),
           id1.w,
           write_cross_axis(id1.id),
           IF c.show_crosses # 0 \/ x_axis.visible
           THEN IF y_axis.crossing = NONE \/ y_axis.crossing = "max"
                THEN write_crosses(y_axis.crossing)
                ELSE write_c_crosses_at(y_axis.crossing)
           ELSE Nothing,
           xml_empty_tag("c:auto", <<Attr("val", "1")>>),
           xml_empty_tag("c:lblAlgn", <<Attr("val", "ctr")>>),
           xml_empty_tag("c:lblOffset", <<Attr("val", "100")>>),
           xml_end_tag("c:catAx")>>)

\* `not axis_ids and len(axis_ids)` holds for no list: an empty list has
\* length 0 and a non-empty one is not falsy.
NotAndLen(axis_ids) == Len(axis_ids) = 0 /\ Len(axis_ids) # 0

\* _write_val_axis taking the crossing from the axis it writes.
write_val_axis_own_crossing(c, args) ==
    LET x_axis == args.x_axis
        y_axis == args.y_axis
        axis_ids == args.axis_ids
        position0 == IF Truthy(args.position) THEN args.position ELSE c.val_axis_position
        horiz == Horiz(c.horiz_val_axis)
        position == IF Truthy(y_axis.position) THEN y_axis.position ELSE position0
        id0 == axis_id_at(axis_ids, 0)
        id1 == axis_id_at(axis_ids, 1)
    IN IF NotAndLen(axis_ids) THEN Nothing
       ELSE Written(<<
           AxisRead(x_axis),
           AxisRead(y_axis),
           xml_start_tag("c:valAx", <<>>),
           id1.w,
           write_axis_id(id1.id),
           write_scaling(y_axis.reverse, y_axis.min, y_axis.max, y_axis.log_base),
           IF ~y_axis.visible THEN write_delete(1) ELSE Nothing,
           write_axis_pos(position, x_axis.reverse),
           write_major_gridlines(y_axis.major_gridlines),
           write_minor_gridlines(y_axis.minor_gridlines),
           IF Truthy(y_axis.formula)
           THEN write_title_formula(c, y_axis.formula, y_axis.data_id, horiz,
                                    y_axis.name_font)
           ELSE IF Truthy(y_axis.name)
           THEN write_title_rich(y_axis.name, horiz, y_axis.name_font)
           ELSE Nothing,
           write_number_format(y_axis),
           write_major_tick_mark(y_axis.major_tick_mark),
           write_tick_label_pos(y_axis.label_position),
           write_axis_font(y_axis.num_font),
           id0.w,
           write_cross_axis(id0.id),
           IF y_axis.crossing = NONE \/ y_axis.crossing = "max"
           THEN write_crosses(y_axis.crossing)
           ELSE write_c_crosses_at(y_axis.crossing),
           write_cross_between(c),
           write_c_major_unit(y_axis.major_unit),
           write_c_minor_unit(y_axis.minor_unit),
           xml_end_tag("c:valAx")>>)

write_val_axis(c, args) ==
    LET x_axis == args.x_axis
        y_axis == args.y_axis
        axis_ids == args.axis_ids
        position0 == IF Truthy(args.position) THEN args.position ELSE c.val_axis_position
        horiz == Horiz(c.horiz_val_axis)
        position == IF Truthy(y_axis.position) THEN y_axis.position ELSE position0
        id0 == axis_id_at(axis_ids, 0)
        id1 == axis_id_at(axis_ids, 1)
    IN IF NotAndLen(axis_ids) THEN Nothing
       ELSE Written(<<
           AxisRead(x_axis),
           AxisRead(y_axis),
           xml_start_tag("c:valAx", <<>>),
           id1.w,
           write_axis_id(id1.id),
           write_scaling(y_axis.reverse, y_axis.min, y_axis.max, y_axis.log_base),
           IF ~y_axis.visible THEN write_delete(1) ELSE Nothing,
           write_axis_pos(position, x_axis.reverse),
           write_major_gridlines(y_axis.major_gridlines),
           write_minor_gridlines(y_axis.minor_gridlines),
           IF Truthy(y_axis.formula)
           THEN write_title_formula(c, y_axis.formula, y_axis.data_id, horiz,
                                    y_axis.name_font)
           ELSE IF Truthy(y_axis.name)
           THEN write_title_rich(y_axis.name, horiz, y_axis.name_font)
           ELSE Nothing,
           write_number_format(y_axis),
           write_major_tick_mark(y_axis.major_tick_mark),
           write_tick_label_pos(y_axis.label_position),
           write_axis_font(y_axis.num_font),
           id0.w,
           write_cross_axis(id0.id),
           IF x_axis.crossing = NONE \/ x_axis.crossing = "max"
           THEN write_crosses(x_axis.crossing)
           ELSE write_c_crosses_at(x_axis.crossing),
           write_cross_between(c),
           write_c_major_unit(y_axis.major_unit),
           write_c_minor_unit(y_axis.minor_unit),
           xml_end_tag("c:valAx")>>)

write_cat_val_axis(c, args) ==
    LET x_axis == args.x_axis
        y_axis == args.y_axis
        axis_ids == args.axis_ids
        position0 == IF Truthy(args.position) THEN args.position ELSE c.val_axis_position
        horiz == Horiz(c.horiz_val_axis)
        position == IF Truthy(x_axis.position) THEN x_axis.position ELSE position0
        id0 == axis_id_at(axis_ids, 0)
        id1 == axis_id_at(axis_ids, 1)
    IN IF NotAndLen(axis_ids) THEN Nothing
       ELSE Written(<<
           AxisRead(x_axis),
           AxisRead(y_axis),
           xml_start_tag("c:valAx", <<>>),
           id0.w,
           write_axis_id(id0.id),
           write_scaling(x_axis.reverse, x_axis.min, x_axis.max, x_axis.log_base),
           IF ~x_axis.visible THEN write_delete(1) ELSE Nothing,
           write_axis_pos(position, y_axis.reverse),
           write_major_gridlines(x_axis.major_gridlines),
           write_minor_gridlines(x_axis.minor_gridlines),
           IF Truthy(x_axis.formula)
           THEN write_title_formula(c, x_axis.formula, y_axis.data_id, horiz,
                                    x_axis.name_font)
           ELSE IF Truthy(x_axis.name)
           THEN write_title_rich(FontText(x_axis.name_font), horiz, x_axis.name_font)
           ELSE Nothing,
           write_number_format(x_axis),
           write_major_tick_mark(x_axis.major_tick_mark),
           write_tick_label_pos(x_axis.label_position),
           write_axis_font(x_axis.num_font),
           id1.w,
           write_cross_axis(id1.id),
           IF y_axis.crossing = NONE \/ y_axis.crossing = "max"
           THEN write_crosses(y_axis.crossing)
           ELSE write_c_crosses_at(y_axis.crossing),
           write_cross_between(c),
           write_c_major_unit(x_axis.major_unit),
           write_c_minor_unit(x_axis.minor_unit),
           xml_end_tag("c:valAx")>>)

write_date_axis(c, args) ==
    LET x_axis == args.x_axis
        y_axis == args.y_axis
        axis_ids == args.axis_ids
        position == IF Truthy(x_axis.position) THEN x_axis.position
                    ELSE c.cat_axis_position
        id0 == axis_id_at(axis_ids, 0)
        id1 == axis_id_at(axis_ids, 1)
    IN IF NotAndLen(axis_ids) THEN Nothing
       ELSE Written(<<
           AxisRead(x_axis),
           AxisRead(y_axis),
           xml_start_tag("c:dateAx", <<>>),
           id0.w,
           write_axis_id(id0.id),
           write_scaling(x_axis.reverse, x_axis.min, x_axis.max, x_axis.log_base),
           IF ~x_axis.visible THEN write_delete(1) ELSE Nothing,
           write_axis_pos(position, y_axis.reverse),
           write_major_gridlines(x_axis.major_gridlines),
           write_minor_gridlines(x_axis.minor_gridlines),
           IF Truthy(x_axis.formula)
           THEN write_title_formula(c, x_axis.formula, x_axis.data_id, FALSE,
                                    x_axis.name_font)
           ELSE IF Truthy(x_axis.name)
           THEN write_title_rich(FontText(x_axis.name_font), FALSE, x_axis.name_font)
           ELSE Nothing,
           write_number_format(x_axis),
           write_major_tick_mark(x_axis.major_tick_mark),
           write_tick_label_pos(x_axis.label_position),
           write_axis_font(x_axis.num_font),
           id1.w,
           write_cross_axis(id1.id),
           IF c.show_crosses # 0 \/ x_axis.visible
           THEN IF y_axis.crossing = NONE \/ y_axis.crossing = "max"
                THEN write_crosses(y_axis.crossing)
                ELSE write_c_crosses_at(y_axis.crossing)
           ELSE Nothing,
           xml_empty_tag("c:auto", <<Attr("val", "1")>>),
           xml_empty_tag("c:lblOffset", <<Attr("val", "100")>>),
           write_c_major_unit(x_axis.major_unit),
           IF Truthy(x_axis.major_unit)
           THEN xml_empty_tag("c:majorTimeUnit",
                              <<Attr("val", IF x_axis.major_unit_type = NONE THEN "days"
                                            ELSE x_axis.major_unit_type)>>)
           ELSE Nothing,
           write_c_minor_unit(x_axis.minor_unit),
           IF Truthy(x_axis.minor_unit)
           THEN xml_empty_tag("c:minorTimeUnit",
                              <<Attr("val", IF x_axis.minor_unit_type = NONE THEN "days"
                                            ELSE x_axis.minor_unit_type)>>)
           ELSE Nothing,
           xml_end_tag("c:dateAx")>>)

(***************************************************************************)
(* Chart Frame Emission.                                                   *)
(***************************************************************************)
\* _add_axis_ids is not defined in chart.py (spec 3, 4.5): a pair is minted
\* once, as two distinct identifiers, and reused afterwards.
AxisIdBase == 50010000

add_axis_ids(c, args) ==
    LET axis_count == 1 + Len(c.axis2_ids) + Len(c.axis_ids)
        id1 == AxisIdBase + axis_count
        id2 == AxisIdBase + axis_count + 1
    IN IF args.primary_axes
       THEN IF c.axis_ids # <<>> THEN c ELSE [c EXCEPT !.axis_ids = <<id1, id2>>]
       ELSE IF c.axis2_ids # <<>> THEN c ELSE [c EXCEPT !.axis2_ids = <<id1, id2>>]

write_axis_ids(c, args) ==
    With(add_axis_ids(c, args),
         LAMBDA c1 :
             LET ids == IF args.primary_axes THEN c1.axis_ids ELSE c1.axis2_ids
                 id0 == axis_id_at(ids, 0)
                 id1 == axis_id_at(ids, 1)
             IN Keep(c1, Written(<<id0.w, write_axis_id(id0.id),
                                   id1.w, write_axis_id(id1.id)>>)))

\* The chart-type variant (spec 4.5): Chart._write_chart_type is the stub
\* the subclasses override.  The variant writes the plot group of the
\* series that use the given axes, each with _write_ser, and the group's
\* axis ids.
IsSecondary(series) == series.x2_axis \/ series.y2_axis

AxesSeries(c, primary_axes) ==
    SelectSeq(c.series, LAMBDA s : IsSecondary(s) = ~primary_axes)

RECURSIVE write_each_series(_, _, _)
write_each_series(c, series, i) ==
    IF i > Len(series) THEN Keep(c, Nothing)
    ELSE With(write_ser(c, series[i]),
              LAMBDA s :
                  With(write_each_series(s.c, series, i + 1),
                       LAMBDA rest : Keep(rest.c, Written(<<s, rest>>))))

write_chart_type(c, args) ==
    LET series == AxesSeries(c, args.primary_axes)
    IN IF Len(series) = 0 THEN Keep(c, Nothing)
       ELSE With(write_each_series(c, series, 1),
                 LAMBDA s :
                     With(write_axis_ids(s.c, args),
                          LAMBDA ids :
                              Keep(ids.c,
                                   Written(<<xml_start_tag("c:lineChart", <<>>),
                                             xml_empty_tag("c:grouping",
                                                           <<Attr("val", "standard")>>),
                                             s,
                                             ids,
                                             xml_end_tag("c:lineChart")>>))))

write_d_table(c) ==
    LET table == c.table
    IN IF table = <<>> THEN Nothing
       ELSE Written(<<xml_start_tag("c:dTable", <<>>),
                      IF table[1].horizontal
                      THEN xml_empty_tag("c:showHorzBorder", <<Attr("val", "1")>>)
                      ELSE Nothing,
                      IF table[1].vertical
                      THEN xml_empty_tag("c:showVertBorder", <<Attr("val", "1")>>)
                      ELSE Nothing,
                      IF table[1].outline
                      THEN xml_empty_tag("c:showOutline", <<Attr("val", "1")>>)
                      ELSE Nothing,
                      IF table[1].show_keys
                      THEN xml_empty_tag("c:showKeys", <<Attr("val", "1")>>)
                      ELSE Nothing,
                      xml_end_tag("c:dTable")>>)

AxisArgs(x_axis, y_axis, axis_ids) ==
    [x_axis |-> x_axis, y_axis |-> y_axis, axis_ids |-> axis_ids, position |-> NONE]

\* _write_plot_area without its closing tag.
write_plot_area_open(c) ==
    With(write_chart_type(c, [primary_axes |-> TRUE]),
         LAMBDA t1 :
             With(write_chart_type(t1.c, [primary_axes |-> FALSE]),
                  LAMBDA t2 :
                      LET c2 == t2.c
                      IN Keep(c2, Written(<<
                          xml_start_tag("c:plotArea", <<>>),
                          xml_empty_tag("c:layout", <<>>),
                          t1,
                          t2,
                          write_cat_axis(c2, AxisArgs(c2.x_axis, c2.y_axis, c2.axis_ids)),
                          write_val_axis(c2, AxisArgs(c2.x_axis, c2.y_axis, c2.axis_ids)),
                          write_val_axis(c2, AxisArgs(c2.x2_axis, c2.y2_axis, c2.axis2_ids)),
                          write_cat_axis(c2, AxisArgs(c2.x2_axis, c2.y2_axis, c2.axis2_ids)),
                          write_d_table(c2),
                          write_sp_pr(c2.plotarea)>>))))

write_plot_area(c) ==
    With(write_chart_type(c, [primary_axes |-> TRUE]),
         LAMBDA t1 :
             With(write_chart_type(t1.c, [primary_axes |-> FALSE]),
                  LAMBDA t2 :
                      LET c2 == t2.c
                      IN Keep(c2, Written(<<
                          xml_start_tag("c:plotArea", <<>>),
                          xml_empty_tag("c:layout", <<>>),
                          t1,
                          t2,
                          write_cat_axis(c2, AxisArgs(c2.x_axis, c2.y_axis, c2.axis_ids)),
                          write_val_axis(c2, AxisArgs(c2.x_axis, c2.y_axis, c2.axis_ids)),
                          write_val_axis(c2, AxisArgs(c2.x2_axis, c2.y2_axis, c2.axis2_ids)),
                          write_cat_axis(c2, AxisArgs(c2.x2_axis, c2.y2_axis, c2.axis2_ids)),
                          write_d_table(c2),
                          write_sp_pr(c2.plotarea),
                          xml_end_tag("c:plotArea")>>))))

write_legend_pos(val) == xml_empty_tag("c:legendPos", <<Attr("val", val)>>)

\* The membership test and the lookup use the literal key 'position'; the
\* list of series to delete from the legend is always empty and the overlay
\* flag always 0.
write_legend(c) ==
    LET position == c.legend_position
        allowed == [right |-> "r", left |-> "l", top |-> "t", bottom |-> "b"]
    IN IF position = "none" THEN Nothing
       ELSE IF "position" \notin DOMAIN allowed THEN Nothing
       ELSE Written(<<xml_start_tag("c:legend", <<>>),
                      write_legend_pos(allowed["position"]),
                      xml_empty_tag("c:layout", <<>>),
                      xml_end_tag("c:legend")>>)

write_disp_blanks_as(c) ==
    LET val == c.show_blanks
    IN IF val = "gap" THEN Nothing
       ELSE xml_empty_tag("c:dispBlanksAs", <<Attr("val", val)>>)

\* _write_chart testing the literal title before the formula.
write_chart_name_first(c) ==
    With(write_plot_area(c),
         LAMBDA p :
             Keep(p.c, Written(<<
                 xml_start_tag("c:chart", <<>>),
                 IF c.title_formula = UNSET THEN UnsetField
                 ELSE IF Truthy(c.title_name)
                 THEN write_title_rich(c.title_name, FALSE, c.title_font)
                 ELSE IF Truthy(c.title_formula)
                 THEN write_title_formula(c, c.title_formula, c.title_data_id, FALSE,
                                          c.title_font)
                 ELSE Nothing,
                 p,
                 write_legend(p.c),
                 IF p.c.show_hidden_data # 0 THEN Nothing
                 ELSE xml_empty_tag("c:plotVisOnly", <<Attr("val", "1")>>),
                 write_disp_blanks_as(p.c),
                 xml_end_tag("c:chart")>>)))

write_chart(c) ==
    With(write_plot_area(c),
         LAMBDA p :
             Keep(p.c, Written(<<
                 xml_start_tag("c:chart", <<>>),
                 IF c.title_formula = UNSET THEN UnsetField
                 ELSE IF Truthy(c.title_formula)
                 THEN write_title_formula(c, c.title_formula, c.title_data_id, FALSE,
                                          c.title_font)
                 ELSE IF Truthy(c.title_name)
                 THEN write_title_rich(c.title_name, FALSE, c.title_font)
                 ELSE Nothing,
                 p,
                 write_legend(p.c),
                 IF p.c.show_hidden_data # 0 THEN Nothing
                 ELSE xml_empty_tag("c:plotVisOnly", <<Attr("val", "1")>>),
                 write_disp_blanks_as(p.c),
                 xml_end_tag("c:chart")>>)))

write_chart_space ==
    xml_start_tag("c:chartSpace",
                  <<Attr("xmlns:c", "http://schemas.openxmlformats.org/drawingml/2006/chart"),
                    Attr("xmlns:a", "http://schemas.openxmlformats.org/drawingml/2006/main"),
                    Attr("xmlns:r",
                         "http://schemas.openxmlformats.org/officeDocument/2006/relationships")>>)

write_style(c) ==
    LET style_id == c.style_id
    IN IF style_id = 2 THEN Nothing
       ELSE xml_empty_tag("c:style", <<Attr("val", ToString(style_id))>>)

write_print_settings ==
    Written(<<xml_start_tag("c:printSettings", <<>>),
              xml_empty_tag("c:headerFooter", <<>>),
              xml_empty_tag("c:pageMargins",
                            <<Attr("b", "0.75"), Attr("l", "0.7"), Attr("r", "0.7"),
                              Attr("t", "0.75"), Attr("header", "0.3"),
                              Attr("footer", "0.3")>>),
              xml_empty_tag("c:pageSetup", <<>>),
              xml_end_tag("c:printSettings")>>)

\* _assemble_xml_file emptying the data cache table.
assemble_xml_file_clearing(c) ==
    With(write_chart(c),
         LAMBDA ch :
             Keep([ch.c EXCEPT !.formula_data = <<>>], Written(<<
                 xml_declaration,
                 write_chart_space,
                 xml_empty_tag("c:lang", <<Attr("val", "en-US")>>),
                 write_style(c),
                 IF c.protection = 0 THEN Nothing ELSE xml_empty_tag("c:protection", <<>>),
                 ch,
                 write_sp_pr(ch.c.chartarea),
                 IF ch.c.embedded # 0 THEN write_print_settings ELSE Nothing,
                 xml_end_tag("c:chartSpace")>>)))

\* Every document starts empty: the caller gives each emission its own sink.
assemble_xml_file(c) ==
    With(write_chart(c),
         LAMBDA ch :
             Keep(ch.c, Written(<<
                 xml_declaration,
                 write_chart_space,
                 xml_empty_tag("c:lang", <<Attr("val", "en-US")>>),
                 write_style(c),
                 IF c.protection = 0 THEN Nothing ELSE xml_empty_tag("c:protection", <<>>),
                 ch,
                 write_sp_pr(ch.c.chartarea),
                 IF ch.c.embedded # 0 THEN write_print_settings ELSE Nothing,
                 xml_end_tag("c:chartSpace")>>)))

(***************************************************************************)
(* The state machine.  Every specification starts from the constructed     *)
(* chart; the specifications differ in the options their calls draw from.  *)
(***************************************************************************)
NoCall == [op |-> "init", arg |-> <<>>, has_values |-> FALSE, pre_series |-> <<>>,
           refs |-> {}]

Init ==
    /\ chart = ChartInit
    /\ out = <<>>
    /\ faults = {}
    /\ emits = 0
    /\ call = NoCall

Refs(formulas) == {f \in formulas : Truthy(f)}

AddSeries(options) ==
    /\ Len(chart.series) < MaxSeries \/ options.values = NOKEY
    /\ chart' = add_series(chart, options)
    /\ call' = [op |-> "add_series", arg |-> <<options>>,
                has_values |-> options.values # NOKEY,
                pre_series |-> chart.series,
                refs |-> call.refs \cup
                         (IF options.values = NOKEY THEN {}
                          ELSE Refs({options.values, options.categories,
                                     process_names(options.name,
                                                   options.name_formula).name_formula}))]
    /\ out' = <<>>
    /\ faults' = {}
    /\ UNCHANGED emits

SetTitle(options) ==
    /\ chart' = set_title(chart, options)
    /\ call' = [op |-> "set_title", arg |-> <<>>, has_values |-> FALSE,
                pre_series |-> chart.series,
                refs |-> call.refs \cup
                         Refs({process_names(options.name,
                                             options.name_formula).name_formula})]
    /\ out' = <<>>
    /\ faults' = {}
    /\ UNCHANGED emits

AssembleXmlFile ==
    /\ emits < MaxEmit
    /\ LET e == assemble_xml_file(chart)
       IN /\ chart' = e.c
          /\ out' = e.out
          /\ faults' = e.f
    /\ emits' = emits + 1
    /\ call' = [op |-> "assemble_xml_file", arg |-> <<>>, has_values |-> FALSE,
                pre_series |-> chart.series, refs |-> call.refs]

\* _write_sp_pr, called with a series of the chart.
WriteSpPr ==
    \E i \in 1..Len(chart.series) :
        LET e == write_sp_pr(<<chart.series[i]>>)
        IN /\ out' = e.out
           /\ faults' = e.f
           /\ call' = [op |-> "write_sp_pr", arg |-> <<chart.series[i]>>,
                       has_values |-> FALSE, pre_series |-> chart.series,
                       refs |-> call.refs]
           /\ UNCHANGED <<chart, emits>>

SetXAxis(options) ==
    /\ chart' = set_x_axis(chart, options)
    /\ call' = [op |-> "set_x_axis", arg |-> <<>>, has_values |-> FALSE,
                pre_series |-> chart.series, refs |-> call.refs]
    /\ out' = <<>>
    /\ faults' = {}
    /\ UNCHANGED emits

SetYAxis(options) ==
    /\ chart' = set_y_axis(chart, options)
    /\ call' = [op |-> "set_y_axis", arg |-> <<>>, has_values |-> FALSE,
                pre_series |-> chart.series, refs |-> call.refs]
    /\ out' = <<>>
    /\ faults' = {}
    /\ UNCHANGED emits

SetX2Axis(options) ==
    /\ chart' = set_x2_axis(chart, options)
    /\ call' = [op |-> "set_x2_axis", arg |-> <<>>, has_values |-> FALSE,
                pre_series |-> chart.series, refs |-> call.refs]
    /\ out' = <<>>
    /\ faults' = {}
    /\ UNCHANGED emits

SetY2Axis(options) ==
    /\ chart' = set_y2_axis(chart, options)
    /\ call' = [op |-> "set_y2_axis", arg |-> <<>>, has_values |-> FALSE,
                pre_series |-> chart.series, refs |-> call.refs]
    /\ out' = <<>>
    /\ faults' = {}
    /\ UNCHANGED emits

\* The arguments _write_plot_area gives the axis writers for the primary and
\* for the secondary pair.
PairArgs(c, secondary) ==
    IF secondary THEN AxisArgs(c.x2_axis, c.y2_axis, c.axis2_ids)
    ELSE AxisArgs(c.x_axis, c.y_axis, c.axis_ids)

WriteCatAxis(args) ==
    LET e == write_cat_axis(chart, args)
    IN /\ out' = e.out
       /\ faults' = e.f
       /\ call' = [op |-> "write_cat_axis", arg |-> <<args>>, has_values |-> FALSE,
                   pre_series |-> chart.series, refs |-> call.refs]
       /\ UNCHANGED <<chart, emits>>

WriteValAxis(args) ==
    LET e == write_val_axis(chart, args)
    IN /\ out' = e.out
       /\ faults' = e.f
       /\ call' = [op |-> "write_val_axis", arg |-> <<args>>, has_values |-> FALSE,
                   pre_series |-> chart.series, refs |-> call.refs]
       /\ UNCHANGED <<chart, emits>>

WriteCatValAxis(args) ==
    LET e == write_cat_val_axis(chart, args)
    IN /\ out' = e.out
       /\ faults' = e.f
       /\ call' = [op |-> "write_cat_val_axis", arg |-> <<args>>, has_values |-> FALSE,
                   pre_series |-> chart.series, refs |-> call.refs]
       /\ UNCHANGED <<chart, emits>>

WriteDateAxis(args) ==
    LET e == write_date_axis(chart, args)
    IN /\ out' = e.out
       /\ faults' = e.f
       /\ call' = [op |-> "write_date_axis", arg |-> <<args>>, has_values |-> FALSE,
                   pre_series |-> chart.series, refs |-> call.refs]
       /\ UNCHANGED <<chart, emits>>

(***************************************************************************)
(* SpecData: series and titles are added with every combination of value,  *)
(* category and name references.                                           *)
(***************************************************************************)
DataSeriesOptions ==
    {[NoOptions EXCEPT !.values = v, !.categories = c, !.name = n,
                       !.categories_data = IF c = NONE THEN <<>> ELSE << <<"a", "b">> >>] :
        v \in {NOKEY, F2Eq}, c \in {NONE, F1}, n \in {NONE, F1}}

TitleOptions ==
    {[name |-> n, name_formula |-> f, data |-> <<>>] :
        n \in {NONE, "Sales"}, f \in {NONE, F1}}

AddSeriesData == \E options \in DataSeriesOptions : AddSeries(options)

SetTitleData == \E options \in TitleOptions : SetTitle(options)

NextData == AddSeriesData \/ SetTitleData \/ AssembleXmlFile

SpecData == Init /\ [][NextData]_vars

(***************************************************************************)
(* SpecSeries: series are added with and without each optional child of    *)
(* c:ser, then written on their own or in a document.                      *)
(***************************************************************************)
MaxStyled == 1

Red == "FF0000"

Profiles ==
    {[name |-> NONE, categories |-> NONE, categories_data |-> <<>>,
      marker |-> <<>>, trendline |-> <<>>, line |-> <<>>, fill |-> <<>>],
     [name |-> "Sales", categories |-> NONE, categories_data |-> <<>>,
      marker |-> <<>>, trendline |-> <<>>, line |-> <<>>, fill |-> <<>>],
     [name |-> "Sales", categories |-> F1, categories_data |-> << <<"a", "b">> >>,
      marker |-> <<[type |-> "square", size |-> 5]>>,
      trendline |-> <<[type |-> "poly", order |-> 2, period |-> 0]>>,
      line |-> <<[EmptyMap EXCEPT !.color = Red, !.width = 1]>>,
      fill |-> <<[none |-> TRUE, color |-> NONE]>>],
     [name |-> F1, categories |-> F2, categories_data |-> << <<"1", "2">> >>,
      marker |-> <<[type |-> "automatic", size |-> 0]>>,
      trendline |-> <<[type |-> "linear", order |-> 0, period |-> 0]>>,
      line |-> <<>>,
      fill |-> <<[none |-> FALSE, color |-> Red]>>]}

StyledSeriesOptions ==
    {[NoOptions EXCEPT !.values = F2Eq, !.values_data = << <<"1", "2">> >>,
                       !.name = p.name, !.categories = p.categories,
                       !.categories_data = p.categories_data,
                       !.marker = p.marker, !.trendline = p.trendline,
                       !.line = p.line, !.fill = p.fill,
                       !.invert_if_negative = inv, !.points = pts,
                       !.data_labels = lbl] :
        p \in Profiles, inv \in BOOLEAN,
        pts \in {<<>>, << <<>>, <<[none |-> FALSE, color |-> Red]>> >>},
        lbl \in {<<>>, <<[value |-> FALSE, category |-> FALSE, position |-> NONE]>>,
                 <<[value |-> TRUE, category |-> FALSE, position |-> NONE]>>}}

AddSeriesStyled ==
    \E options \in StyledSeriesOptions :
        Len(chart.series) < MaxStyled /\ AddSeries(options)

NextSeries == AddSeriesStyled \/ WriteSpPr \/ AssembleXmlFile

SpecSeries == Init /\ [][NextSeries]_vars

(***************************************************************************)
(* SpecAxes: series on the primary and on the secondary axes, the four     *)
(* axis setters, and the axis writers called on their own or in a document.*)
(***************************************************************************)
AxesSeriesOptions ==
    {[NoOptions EXCEPT !.values = F2, !.y2_axis = y2] : y2 \in BOOLEAN}

AxisOptions == {[NoAxisOptions EXCEPT !.visible = <<v>>] : v \in BOOLEAN}

Axis2Options == {[NoAxisOptions EXCEPT !.visible = <<FALSE>>]}

AddSeriesAxes == \E options \in AxesSeriesOptions : AddSeries(options)

SetXAxisAxes == \E options \in AxisOptions : SetXAxis(options)

SetYAxisAxes == \E options \in AxisOptions : SetYAxis(options)

SetX2AxisAxes == \E options \in Axis2Options : SetX2Axis(options)

SetY2AxisAxes == \E options \in Axis2Options : SetY2Axis(options)

WriteCatAxisAxes == \E secondary \in BOOLEAN : WriteCatAxis(PairArgs(chart, secondary))

WriteValAxisAxes == \E secondary \in BOOLEAN : WriteValAxis(PairArgs(chart, secondary))

WriteCatValAxisAxes == \E secondary \in BOOLEAN : WriteCatValAxis(PairArgs(chart, secondary))

WriteDateAxisAxes == \E secondary \in BOOLEAN : WriteDateAxis(PairArgs(chart, secondary))

NextAxes ==
    \/ AddSeriesAxes
    \/ SetXAxisAxes
    \/ SetYAxisAxes
    \/ SetX2AxisAxes
    \/ SetY2AxisAxes
    \/ WriteCatAxisAxes
    \/ WriteValAxisAxes
    \/ WriteCatValAxisAxes
    \/ WriteDateAxisAxes
    \/ AssembleXmlFile

SpecAxes == Init /\ [][NextAxes]_vars

(***************************************************************************)
(* SpecFrame: the chart-level setters, the gridlines writers called with   *)
(* gridlines records, and emission.                                        *)
(***************************************************************************)
StyleIds == {<<>>, <<-1>>, <<0>>, <<2>>, <<10>>, <<42>>, <<43>>, <<50>>}

BlankOptions == {NONE, "gap", "zero", "span", "dash"}

\* A gridlines record holds its visibility and its line record.
Gridlines ==
    {<<>>}
    \cup {<<[visible |-> v, line |-> l]>> :
             v \in BOOLEAN,
             l \in {NoLine, get_line_properties(<<[EmptyMap EXCEPT !.color = Red]>>)}}

SetStyle ==
    \E style_id \in StyleIds :
        /\ chart' = set_style(chart, style_id)
        /\ call' = [op |-> "set_style", arg |-> style_id, has_values |-> FALSE,
                    pre_series |-> chart.series, refs |-> call.refs]
        /\ out' = <<>>
        /\ faults' = {}
        /\ UNCHANGED emits

ShowBlanksAs ==
    \E option \in BlankOptions :
        /\ chart' = show_blanks_as(chart, option)
        /\ call' = [op |-> "show_blanks_as", arg |-> <<option>>, has_values |-> FALSE,
                    pre_series |-> chart.series, refs |-> call.refs]
        /\ out' = <<>>
        /\ faults' = {}
        /\ UNCHANGED emits

LegendPositions == {<<>>, <<"right">>, <<"left">>, <<"top">>, <<"bottom">>, <<"none">>, <<"middle">>}

SetLegend ==
    \E position \in LegendPositions :
        /\ chart' = set_legend(chart, [position |-> position])
        /\ call' = [op |-> "set_legend", arg |-> <<position>>, has_values |-> FALSE,
                    pre_series |-> chart.series, refs |-> call.refs]
        /\ out' = <<>>
        /\ faults' = {}
        /\ UNCHANGED emits

WriteMajorGridlines ==
    \E gridlines \in Gridlines :
        LET e == write_major_gridlines(gridlines)
        IN /\ out' = e.out
           /\ faults' = e.f
           /\ call' = [op |-> "write_major_gridlines", arg |-> gridlines,
                       has_values |-> FALSE, pre_series |-> chart.series,
                       refs |-> call.refs]
           /\ UNCHANGED <<chart, emits>>

WriteMinorGridlines ==
    \E gridlines \in Gridlines :
        LET e == write_minor_gridlines(gridlines)
        IN /\ out' = e.out
           /\ faults' = e.f
           /\ call' = [op |-> "write_minor_gridlines", arg |-> gridlines,
                       has_values |-> FALSE, pre_series |-> chart.series,
                       refs |-> call.refs]
           /\ UNCHANGED <<chart, emits>>

NextFrame ==
    \/ SetStyle
    \/ ShowBlanksAs
    \/ SetLegend
    \/ WriteMajorGridlines
    \/ WriteMinorGridlines
    \/ AssembleXmlFile

SpecFrame == Init /\ [][NextFrame]_vars

(***************************************************************************)
(* SpecFormat: one series with textual, numeric or no categories; each     *)
(* primary axis configured once, with a position, a crossing or a number   *)
(* format; the date and category-as-value writers called with the primary  *)
(* pair; and emission.                                                     *)
(***************************************************************************)
CatSeriesOptions ==
    {[NoOptions EXCEPT !.values = F2Eq, !.values_data = << <<"1", "2">> >>],
     [NoOptions EXCEPT !.values = F2Eq, !.values_data = << <<"1", "2">> >>,
                       !.categories = F1, !.categories_data = << <<"a", "b">> >>],
     [NoOptions EXCEPT !.values = F2Eq, !.values_data = << <<"1", "2">> >>,
                       !.categories = F1, !.categories_data = << <<"1", "2">> >>]}

FormatOptions ==
    {[NoAxisOptions EXCEPT !.reverse = <<r>>, !.position = p] :
         r \in BOOLEAN, p \in {<<>>, <<"l">>, <<"r">>, <<"t">>, <<"b">>}}
    \cup {[NoAxisOptions EXCEPT !.crossing = <<x>>] : x \in {"max", "5"}}
    \cup {[NoAxisOptions EXCEPT !.num_format = f, !.num_format_linked = l] :
              f \in {<<>>, <<"0.00">>}, l \in {<<>>, <<TRUE>>}}

AddSeriesCat ==
    /\ Len(chart.series) = 0
    /\ \E options \in CatSeriesOptions : AddSeries(options)

SetXAxisOnce ==
    /\ ~chart.x_axis.configured
    /\ \E options \in FormatOptions : SetXAxis(options)

SetYAxisOnce ==
    /\ ~chart.y_axis.configured
    /\ \E options \in FormatOptions : SetYAxis(options)

WriteDateAxisPrimary == WriteDateAxis(PairArgs(chart, FALSE))

WriteCatValAxisPrimary == WriteCatValAxis(PairArgs(chart, FALSE))

NextFormat ==
    \/ AddSeriesCat
    \/ SetXAxisOnce
    \/ SetYAxisOnce
    \/ WriteDateAxisPrimary
    \/ WriteCatValAxisPrimary
    \/ AssembleXmlFile

SpecFormat == Init /\ [][NextFormat]_vars

(***************************************************************************)
(* SpecTitles: one series; a chart title and titles and label positions on *)
(* the two primary axes, each given as a literal name, a formula, both or  *)
(* neither; the four axis writers called with the primary pair; and        *)
(* emission.                                                               *)
(***************************************************************************)
TitledAxisOptions ==
    {[NoAxisOptions EXCEPT !.name = n, !.name_formula = f] :
         n \in {<<>>, <<"Units">>}, f \in {<<>>, <<F1>>, <<F2Eq>>}}
    \cup {[NoAxisOptions EXCEPT !.label_position = <<p>>] : p \in {"none", "low", "high"}}

AddSeriesTitled ==
    /\ Len(chart.series) = 0
    /\ AddSeries([NoOptions EXCEPT !.values = F2Eq, !.values_data = << <<"1", "2">> >>])

SetXAxisTitled ==
    /\ ~chart.x_axis.configured
    /\ \E options \in TitledAxisOptions : SetXAxis(options)

SetYAxisTitled ==
    /\ ~chart.y_axis.configured
    /\ \E options \in TitledAxisOptions : SetYAxis(options)

SetTitleOnce ==
    /\ chart.title_name = UNSET
    /\ \E options \in TitleOptions : SetTitle(options)

WriteCatAxisPrimary == WriteCatAxis(PairArgs(chart, FALSE))

WriteValAxisPrimary == WriteValAxis(PairArgs(chart, FALSE))

NextTitles ==
    \/ AddSeriesTitled
    \/ SetTitleOnce
    \/ SetXAxisTitled
    \/ SetYAxisTitled
    \/ WriteCatAxisPrimary
    \/ WriteValAxisPrimary
    \/ WriteCatValAxisPrimary
    \/ WriteDateAxisPrimary
    \/ AssembleXmlFile

SpecTitles == Init /\ [][NextTitles]_vars

(***************************************************************************)
(* SpecSetters: one series added with error bars or with border, line and  *)
(* fill options; set_up_down_bars and set_size; and emission.              *)
(***************************************************************************)
Blue == "0000FF"

Green == "00FF00"

ErrorBars == {<<>>, <<[type |-> "fixedVal", value |-> "1"]>>, <<[type |-> "stdErr", value |-> "1"]>>}

LineOf(colors) == {<<>>} \cup {<<[EmptyMap EXCEPT !.color = c]>> : c \in colors}

SetterSeriesOptions ==
    {[NoOptions EXCEPT !.values = F2Eq, !.values_data = << <<"1", "2">> >>,
                       !.x_error_bars = x, !.y_error_bars = y] :
         x \in ErrorBars, y \in ErrorBars}
    \cup {[NoOptions EXCEPT !.values = F2Eq, !.values_data = << <<"1", "2">> >>,
                            !.border = b, !.line = l, !.fill = f] :
              b \in LineOf({Red}), l \in LineOf({Blue}),
              f \in {<<>>, <<[none |-> FALSE, color |-> Green]>>}}

Bars ==
    {<<>>}
    \cup {<<[border |-> b, line |-> l, fill |-> f]>> :
              b \in LineOf({Red}), l \in LineOf({Blue}), f \in LineOf({Green})}

UpDownOptions ==
    {<<>>}
    \cup {<<[up |-> u, down |-> <<>>]>> : u \in Bars}
    \cup {<<[up |-> <<>>, down |-> d]>> : d \in Bars}

SizeOptions ==
    {[width |-> w, height |-> <<200>>, x_scale |-> <<2>>, y_scale |-> <<3>>,
      x_offset |-> xo, y_offset |-> yo] :
         w \in {<<>>, <<640>>}, xo \in {<<>>, <<10>>}, yo \in {<<>>, <<20>>}}

AddSeriesSetters ==
    /\ Len(chart.series) = 0
    /\ \E options \in SetterSeriesOptions : AddSeries(options)

SetUpDownBars ==
    /\ chart.up_down_bars = <<>>
    /\ \E options \in UpDownOptions :
           /\ chart' = set_up_down_bars(chart, options)
           /\ call' = [op |-> "set_up_down_bars", arg |-> <<options>>, has_values |-> FALSE,
                       pre_series |-> chart.series, refs |-> call.refs]
           /\ out' = <<>>
           /\ faults' = {}
           /\ UNCHANGED emits

SetSize ==
    /\ chart.height = <<288>>
    /\ \E options \in SizeOptions :
           /\ chart' = set_size(chart, options)
           /\ call' = [op |-> "set_size", arg |-> <<options>>, has_values |-> FALSE,
                       pre_series |-> chart.series, refs |-> call.refs]
           /\ out' = <<>>
           /\ faults' = {}
           /\ UNCHANGED emits

NextSetters == AddSeriesSetters \/ SetUpDownBars \/ SetSize \/ AssembleXmlFile

SpecSetters == Init /\ [][NextSetters]_vars

(***************************************************************************)
(* Reading a document.  An element is the index of its start token; its    *)
(* children are the tokens between the start token and its end token that  *)
(* no other element encloses.  No element of the chart format encloses an  *)
(* element of its own name.                                                *)
(***************************************************************************)
Emitted == call.op = "assemble_xml_file"

Named(doc, name) == {i \in 1..Len(doc) : doc[i].n = name /\ doc[i].k # "end"}

\* The value of the first attribute of a token (the text of a data element).
Val(doc, i) == doc[i].a[1][2]

ElemEnd(doc, i) ==
    CHOOSE j \in (i + 1)..Len(doc) :
        /\ doc[j].k = "end"
        /\ doc[j].n = doc[i].n
        /\ \A m \in (i + 1)..(j - 1) : ~(doc[m].k = "end" /\ doc[m].n = doc[i].n)

Inner(doc, i, j) ==
    Cardinality({m \in (i + 1)..(j - 1) : doc[m].k = "start"})
        - Cardinality({m \in (i + 1)..(j - 1) : doc[m].k = "end"})

Kids(doc, i) ==
    {j \in (i + 1)..(ElemEnd(doc, i) - 1) : doc[j].k # "end" /\ Inner(doc, i, j) = 0}

KidsNamed(doc, i, name) == {j \in Kids(doc, i) : doc[j].n = name}

KidVals(doc, i, name) == {Val(doc, j) : j \in KidsNamed(doc, i, name)}

\* The series in the order the plot area writes them, and the place (from
\* 0) of a c:ser element among the c:ser elements of the document.
PlotOrder == AxesSeries(chart, TRUE) \o AxesSeries(chart, FALSE)

Place(i) == Cardinality({j \in Named(out, "c:ser") : j < i})

AxisWriters == {"write_cat_axis", "write_val_axis", "write_cat_val_axis", "write_date_axis"}

\* The axis an axis writer writes, and the places of its own id and of the
\* other axis's id in the pair.
OwnAxis == IF call.op = "write_val_axis" THEN call.arg[1].y_axis ELSE call.arg[1].x_axis

OwnPlace == IF call.op = "write_val_axis" THEN 2 ELSE 1

(***************************************************************************)
(* C1: an add_series call whose options have no 'values' key is aborted:   *)
(* the series sequence after the call is the sequence before it, so its    *)
(* length is unchanged and nothing is appended.                            *)
(***************************************************************************)
C1_NoValuesAborts ==
    (call.op = "add_series" /\ ~call.has_values) =>
        /\ Len(chart.series) = Len(call.pre_series)
        /\ chart.series = call.pre_series

C1_Witness ==
    /\ call.op = "add_series"
    /\ ~call.has_values
    /\ Len(chart.series) = 1

(***************************************************************************)
(* C2: for every object handed to _write_sp_pr, a fill record with         *)
(* defined = FALSE has no a:noFill and no a:solidFill child written for it *)
(* in c:spPr, and a line record with defined = FALSE has no a:ln written.  *)
(* The source tests `defined is not None`, so this does not hold.          *)
(***************************************************************************)
C2_UndefinedWritesNothing ==
    call.op = "write_sp_pr" =>
        LET object == call.arg[1]
        IN /\ ~object.fill.defined =>
                  \A j \in Kids(out, 1) : out[j].n \notin {"a:noFill", "a:solidFill"}
           /\ ~object.line.defined => Named(out, "a:ln") = {}

(***************************************************************************)
(* C3: an axis writer called with configured axes and an empty axis-id     *)
(* pair writes nothing and makes no rejected read, and a document of a     *)
(* chart whose secondary pair is empty holds no second c:valAx and no      *)
(* second c:catAx.  The guard of the value, category-as-value and date     *)
(* writers never returns, so this does not hold.                           *)
(***************************************************************************)
C3_EmptyPairSkipped ==
    /\ (/\ call.op \in AxisWriters
        /\ call.arg[1].axis_ids = <<>>
        /\ call.arg[1].x_axis.configured
        /\ call.arg[1].y_axis.configured) => (out = <<>> /\ faults = {})
    /\ (Emitted /\ chart.axis2_ids = <<>>) =>
           /\ Cardinality(Named(out, "c:valAx")) <= 1
           /\ Cardinality(Named(out, "c:catAx")) <= 1

(***************************************************************************)
(* C4: the two identifiers of an assigned axis-id pair are distinct; an    *)
(* axis writer called with the pair writes its own place of the pair as    *)
(* c:axId and the other place as c:crossAx; and in a document, each        *)
(* assigned pair has one c:catAx and one c:valAx, each of which refers in  *)
(* c:crossAx to the c:axId of the other, and every plot group names the    *)
(* two identifiers of one assigned pair.                                   *)
(***************************************************************************)
AssignedPairs == {ids \in {chart.axis_ids, chart.axis2_ids} : Len(ids) = 2}

C6_IdxIsPlace ==
    Emitted =>
        \A i \in Named(out, "c:ser") :
            /\ out[i + 1].n = "c:idx"
            /\ Val(out, i + 1) = ToString(Place(i))
            /\ out[i + 2].n = "c:order"
            /\ Val(out, i + 2) = ToString(Place(i))

(***************************************************************************)
(* C7: in every document emitted from a chart, the first c:ser element has *)
(* c:idx 0 and c:order 0.  series_index is assigned 0 by the constructor   *)
(* only, so this does not hold for a second document.                      *)
(***************************************************************************)
C7_FirstIdxZero ==
    Emitted =>
        \A i \in Named(out, "c:ser") :
            Place(i) = 0 => (Val(out, i + 1) = "0" /\ Val(out, i + 2) = "0")

(***************************************************************************)
(* C8: the children of every c:ser element are, in this order, c:idx,      *)
(* c:order, c:tx, c:spPr, c:marker, c:invertIfNegative, the c:dPt          *)
(* elements, c:dLbls, c:trendline, c:errBars, c:cat and c:val;             *)
(* c:invertIfNegative is there exactly when the series' flag is set, one   *)
(* c:dPt exactly for each customised point, and c:dLbls exactly when the   *)
(* series holds a labels record.                                           *)
(***************************************************************************)
Rank(name) ==
    CASE name = "c:idx" -> 1
      [] name = "c:order" -> 2
      [] name = "c:tx" -> 3
      [] name = "c:spPr" -> 4
      [] name = "c:marker" -> 5
      [] name = "c:invertIfNegative" -> 6
      [] name = "c:dPt" -> 7
      [] name = "c:dLbls" -> 8
      [] name = "c:trendline" -> 9
      [] name = "c:errBars" -> 10
      [] name = "c:cat" -> 11
      [] name = "c:val" -> 12
      [] OTHER -> 0

ChartRefs ==
    {p \in UNION {{<<chart.series[i].categories, chart.series[i].cat_data_id>>,
                   <<chart.series[i].values, chart.series[i].val_data_id>>,
                   <<chart.series[i].name_formula, chart.series[i].name_id>>} :
                  i \in 1..Len(chart.series)}
           \cup {<<chart.title_formula, chart.title_data_id>>} :
        Truthy(p[1]) /\ p[1] # UNSET}

C10_OneEntryPerFormula ==
    /\ Len(chart.formula_data) = Cardinality(call.refs)
    /\ \A p \in ChartRefs : p[2] \in 0..(Len(chart.formula_data) - 1)
    /\ \A p, q \in ChartRefs : (p[1] = q[1]) <=> (p[2] = q[2])

C10_Witness ==
    /\ Len(chart.series) = 2
    /\ chart.series[1].categories = F1
    /\ chart.series[2].name_formula = F1
    /\ chart.series[1].cat_data_id = chart.series[2].name_id
    /\ chart.title_formula = F1
    /\ Len(chart.formula_data) = 2

(***************************************************************************)
(* C11: the data cache table is append-only.  Across add_series, set_title *)
(* and emission steps every formula keeps the id it was assigned and the   *)
(* table never shrinks; data stored under an id is never replaced (an      *)
(* entry registered without data may receive its data once, from a later   *)
(* reference to the same formula); and emission leaves the table and the   *)
(* ids as they were.                                                       *)
(***************************************************************************)
IdsKept ==
    /\ Len(chart'.formula_data) >= Len(chart.formula_data)
    /\ \A formula \in DOMAIN chart.formula_ids :
           /\ formula \in DOMAIN chart'.formula_ids
           /\ chart'.formula_ids[formula] = chart.formula_ids[formula]
    /\ call'.op = "assemble_xml_file" =>
           /\ chart'.formula_data = chart.formula_data
           /\ chart'.formula_ids = chart.formula_ids

GridlinesTag ==
    IF call.op = "write_major_gridlines" THEN "c:majorGridlines" ELSE "c:minorGridlines"

AxisElems(name, id) ==
    {i \in Named(out, name) : KidVals(out, i, "c:axId") = {ToString(id)}}

PrimaryCatAx == AxisElems("c:catAx", chart.axis_ids[1])

PrimaryValAx == AxisElems("c:valAx", chart.axis_ids[2])

PrimaryWritten == Emitted /\ Len(chart.axis_ids) = 2

Swap(position) ==
    CASE position = "l" -> "r"
      [] position = "r" -> "l"
      [] position = "b" -> "t"
      [] position = "t" -> "b"

\* The position _write_axis_pos writes for a position when the other axis
\* is reversed.
Flipped(position) == Val(write_axis_pos(position, TRUE).out, 1)

C14_FlipIsSwap ==
    PrimaryWritten =>
        LET cat == IF Truthy(chart.x_axis.position) THEN chart.x_axis.position
                   ELSE chart.cat_axis_position
            val == IF Truthy(chart.y_axis.position) THEN chart.y_axis.position
                   ELSE chart.val_axis_position
        IN /\ \A i \in PrimaryCatAx :
                  KidVals(out, i, "c:axPos") = {IF chart.y_axis.reverse THEN Swap(cat) ELSE cat}
           /\ \A i \in PrimaryValAx :
                  KidVals(out, i, "c:axPos") = {IF chart.x_axis.reverse THEN Swap(val) ELSE val}
           /\ Flipped(Flipped(cat)) = cat
           /\ Flipped(Flipped(val)) = val

(***************************************************************************)
(* C15: a set_style call with no id or with an id below 0 or above 42      *)
(* leaves the chart's style id at 2, whatever the calls before it, and a   *)
(* call with an id from 0 to 42 leaves that id; a document holds one       *)
(* c:style element, carrying the style id, when the style id is not 2, and *)
(* none when it is 2.                                                      *)
(***************************************************************************)
C15_StyleResolved ==
    /\ call.op = "set_style" =>
           chart.style_id = IF call.arg = <<>> THEN 2
                            ELSE IF call.arg[1] < 0 \/ call.arg[1] > 42 THEN 2
                            ELSE call.arg[1]
    /\ Emitted =>
           /\ Cardinality(Named(out, "c:style")) = IF chart.style_id = 2 THEN 0 ELSE 1
           /\ \A i \in Named(out, "c:style") : Val(out, i) = ToString(chart.style_id)

\* set_style(50), called after a document was emitted.
C15_Witness ==
    /\ call.op = "set_style"
    /\ call.arg = <<50>>
    /\ emits = 1
    /\ chart.style_id = 2

(***************************************************************************)
(* C16: after show_blanks_as with 'gap', 'zero' or 'span' the chart's      *)
(* show_blanks is that option; a document holds one c:dispBlanksAs element *)
(* with the value of show_blanks when it is not 'gap', and none when it    *)
(* is.  show_blanks_as tests the literal key 'option' and so returns       *)
(* before the assignment for every option: the first part does not hold.   *)
(***************************************************************************)
C16_BlanksModeSet ==
    /\ (call.op = "show_blanks_as" /\ call.arg[1] \in {"gap", "zero", "span"}) =>
           chart.show_blanks = call.arg[1]
    /\ Emitted =>
           /\ Cardinality(Named(out, "c:dispBlanksAs"))
                  = IF chart.show_blanks = "gap" THEN 0 ELSE 1
           /\ \A i \in Named(out, "c:dispBlanksAs") : Val(out, i) = chart.show_blanks

(***************************************************************************)
(* C17: every emitted document is well nested.  A stretch of tokens        *)
(* reduces to the end tags it leaves unmatched (in order) and the start    *)
(* tags it leaves open (outermost first) once every end tag has closed     *)
(* the most recently opened element still open; ok is false when such a    *)
(* pair differs in name.  A document is well nested when it reduces to     *)
(* nothing with ok true.  c:chartSpace is opened once, by the first token  *)
(* after the declaration, and closed once, by the last token.              *)
(***************************************************************************)
Join(l, r) ==
    LET k == IF Len(l.s) < Len(r.e) THEN Len(l.s) ELSE Len(r.e)
    IN [ok |-> /\ l.ok
               /\ r.ok
               /\ \A m \in 1..k : l.s[Len(l.s) - m + 1] = r.e[m],
        e  |-> l.e \o SubSeq(r.e, k + 1, Len(r.e)),
        s  |-> SubSeq(l.s, 1, Len(l.s) - k) \o r.s]

RECURSIVE Reduce(_, _, _)
Reduce(doc, lo, hi) ==
    IF lo > hi THEN [ok |-> TRUE, e |-> <<>>, s |-> <<>>]
    ELSE IF lo = hi
         THEN [ok |-> TRUE,
               e  |-> IF doc[lo].k = "end" THEN <<doc[lo].n>> ELSE <<>>,
               s  |-> IF doc[lo].k = "start" THEN <<doc[lo].n>> ELSE <<>>]
    ELSE With(Reduce(doc, lo, (lo + hi) \div 2),
              LAMBDA l : With(Reduce(doc, (lo + hi) \div 2 + 1, hi),
                              LAMBDA r : Join(l, r)))

WellNested(doc) ==
    /\ Reduce(doc, 1, Len(doc)) = [ok |-> TRUE, e |-> <<>>, s |-> <<>>]
    /\ Len(doc) >= 3
    /\ doc[1].k = "decl"
    /\ doc[2].k = "start" /\ doc[2].n = "c:chartSpace"
    /\ doc[Len(doc)].k = "end" /\ doc[Len(doc)].n = "c:chartSpace"
    /\ {i \in 1..Len(doc) : doc[i].n = "c:chartSpace"} = {2, Len(doc)}
    /\ \A i \in 2..Len(doc) : doc[i].k # "decl"

SourceLinked(axis) ==
    IF axis.num_format_linked THEN "1"
    ELSE IF axis.num_format = axis.defaults.num_format THEN "1"
    ELSE "0"

NumFmtOf(i, axis) ==
    /\ Cardinality(KidsNamed(out, i, "c:numFmt")) = 1
    /\ \A j \in KidsNamed(out, i, "c:numFmt") :
           out[j].a = <<Attr("formatCode", axis.num_format),
                        Attr("sourceLinked", SourceLinked(axis))>>

C18_SourceLinked ==
    /\ PrimaryWritten => \A i \in PrimaryValAx : NumFmtOf(i, chart.y_axis)
    /\ call.op = "write_date_axis" =>
           \A i \in Named(out, "c:dateAx") : NumFmtOf(i, chart.x_axis)

\* A date axis whose format is not the default and whose linking is forced.
C18_Witness ==
    /\ call.op = "write_date_axis"
    /\ Named(out, "c:dateAx") # {}
    /\ chart.x_axis.num_format # chart.x_axis.defaults.num_format
    /\ chart.x_axis.num_format_linked
    /\ \E j \in Named(out, "c:numFmt") : out[j].a[2][2] = "1"

(***************************************************************************)
(* C19: the category axis of a document holds a numFmt element exactly     *)
(* when cat_has_num_fmt is set or the axis's number format is not its      *)
(* default; when no series has categories, or the categories cached for    *)
(* the series are text, and the format is the default, it holds none.      *)
(* The first part holds.  The categories of the first reference added are  *)
(* cached under id 0, which _write_cat does not read: the type detected is *)
(* not 'str', the flag is set, and the text categories get a numFmt.       *)
(***************************************************************************)
CatCached(series) ==
    IF series.cat_data_id = NoId THEN <<>> ELSE chart.formula_data[series.cat_data_id + 1]

CatsTextOrAbsent ==
    \A k \in 1..Len(chart.series) :
        \/ ~Truthy(chart.series[k].categories)
        \/ get_data_type(CatCached(chart.series[k])) = "str"

C19_CatNumFmt ==
    PrimaryWritten =>
        \A i \in PrimaryCatAx :
            /\ KidsNamed(out, i, "c:numFmt") # {}
                   <=> \/ chart.cat_has_num_fmt = 1
                       \/ chart.x_axis.num_format # chart.x_axis.defaults.num_format
            /\ (/\ CatsTextOrAbsent
                /\ chart.x_axis.num_format = chart.x_axis.defaults.num_format)
                   => KidsNamed(out, i, "c:numFmt") = {}

(***************************************************************************)
(* C20: in a document the crossing element of the category axis follows    *)
(* the value axis's crossing and that of the value axis follows the        *)
(* category axis's: c:crosses with autoZero when that crossing is unset,   *)
(* c:crosses with max when it is 'max', and otherwise c:crossesAt with    *)
(* its value.  The value axis holds exactly one of the two elements; the   *)
(* category axis holds one when crosses are shown or the axis is visible   *)
(* and none otherwise.                                                     *)
(***************************************************************************)
CrossingFor(other) ==
    IF other.crossing = NONE THEN <<"c:crosses", "autoZero">>
    ELSE IF other.crossing = "max" THEN <<"c:crosses", "max">>
    ELSE <<"c:crossesAt", other.crossing>>

CrossKids(i) == KidsNamed(out, i, "c:crosses") \cup KidsNamed(out, i, "c:crossesAt")

Given(v) == v # UNSET /\ Truthy(v)

IsFormulaTitle(t) ==
    /\ KidsNamed(out, t, "c:txPr") # {}
    /\ \A x \in KidsNamed(out, t, "c:tx") : KidsNamed(out, x, "c:rich") = {}

IsRichTitle(t) ==
    /\ KidsNamed(out, t, "c:txPr") = {}
    /\ \E x \in KidsNamed(out, t, "c:tx") : KidsNamed(out, x, "c:rich") # {}

TitleOf(i, formula, name) ==
    /\ Cardinality(KidsNamed(out, i, "c:title"))
           = IF Given(formula) \/ Given(name) THEN 1 ELSE 0
    /\ \A t \in KidsNamed(out, i, "c:title") :
           IF Given(formula) THEN IsFormulaTitle(t) ELSE IsRichTitle(t)

TickLblPosFor(axis) == IF axis.label_position = NONE THEN "nextTo" ELSE axis.label_position

C22_LabelPosDefault ==
    PrimaryWritten =>
        /\ \A i \in PrimaryCatAx :
               /\ Cardinality(KidsNamed(out, i, "c:tickLblPos")) = 1
               /\ KidVals(out, i, "c:tickLblPos") = {TickLblPosFor(chart.x_axis)}
        /\ \A i \in PrimaryValAx :
               /\ Cardinality(KidsNamed(out, i, "c:tickLblPos")) = 1
               /\ KidVals(out, i, "c:tickLblPos") = {TickLblPosFor(chart.y_axis)}

(***************************************************************************)
(* C23: in a document the element of a series holds one c:errBars element  *)
(* for each of the series' configured error bars and none for the others,  *)
(* the x one before the y one, and a c:errBars element holds a c:val       *)
(* element exactly when its c:errValType is not stdErr.                    *)
(* add_series stores the two error bars in a one-element tuple, which      *)
(* _write_error_bars cannot read by field: no error bars are written.      *)
(***************************************************************************)
Configured(series) ==
    {d \in {"x", "y"} :
         IF d = "x" THEN series.error_bars[1].x_error_bars # <<>>
         ELSE series.error_bars[1].y_error_bars # <<>>}

ErrBarsOf(i, series) ==
    /\ Cardinality(KidsNamed(out, i, "c:errBars")) = Cardinality(Configured(series))
    /\ {KidVals(out, b, "c:errDir") : b \in KidsNamed(out, i, "c:errBars")}
           = {{d} : d \in Configured(series)}
    /\ \A b1, b2 \in KidsNamed(out, i, "c:errBars") :
           (KidVals(out, b1, "c:errDir") = {"x"} /\ KidVals(out, b2, "c:errDir") = {"y"})
               => b1 < b2
    /\ \A b \in KidsNamed(out, i, "c:errBars") :
           KidsNamed(out, b, "c:val") # {} <=> KidVals(out, b, "c:errValType") # {"stdErr"}

C23_ErrorBarsWritten ==
    (Emitted /\ Len(chart.series) = 1) =>
        /\ Cardinality(Named(out, "c:ser")) = 1
        /\ \A i \in Named(out, "c:ser") : ErrBarsOf(i, chart.series[1])

(***************************************************************************)
(* C24: after add_series with a 'border' option the line stored for the    *)
(* series is the one resolved from the border, and with a 'fill' option    *)
(* the stored fill is the one resolved from it; after set_up_down_bars the *)
(* same holds for the line and the fill stored for the 'up' bar and for    *)
(* the 'down' bar, whatever other keys the bar has.                        *)
(* set_up_down_bars resolves the 'fill' key as a line and stores it as the *)
(* bar's line; the bar's fill stays None.                                  *)
(***************************************************************************)
BarStored(bar, stored) ==
    bar # <<>> =>
        /\ bar[1].border # <<>> => stored.line = <<get_line_properties(bar[1].border)>>
        /\ bar[1].fill # <<>> => stored.fill = <<get_fill_properties(bar[1].fill)>>

C24_BorderFirst ==
    /\ (call.op = "add_series" /\ call.has_values) =>
           /\ call.arg[1].border # <<>> =>
                  chart.series[Len(chart.series)].line = get_line_properties(call.arg[1].border)
           /\ call.arg[1].fill # <<>> =>
                  chart.series[Len(chart.series)].fill = get_fill_properties(call.arg[1].fill)
    /\ (call.op = "set_up_down_bars" /\ call.arg[1] # <<>>) =>
           /\ BarStored(call.arg[1][1].up, chart.up_down_bars[1].up)
           /\ BarStored(call.arg[1][1].down, chart.up_down_bars[1].down)

(***************************************************************************)
(* C25: a document holds one c:legend element when the legend position is  *)
(* right, left, top or bottom, with c:legendPos r, l, t or b, and none for *)
(* any other position.                                                     *)
(* _write_legend tests the literal key 'position', which is not a key of   *)
(* the allowed positions, and returns: no legend is ever written.          *)
(***************************************************************************)
LegendPosFor == [right |-> "r", left |-> "l", top |-> "t", bottom |-> "b"]

C25_LegendWritten ==
    Emitted =>
        IF chart.legend_position \in DOMAIN LegendPosFor
        THEN /\ Cardinality(Named(out, "c:legend")) = 1
             /\ \A i \in Named(out, "c:legend") :
                    KidVals(out, i, "c:legendPos") = {LegendPosFor[chart.legend_position]}
        ELSE Named(out, "c:legend") = {}

(***************************************************************************)
(* C26: in a document the c:cat element of a series with a category       *)
(* formula is written from the cache entry stored under the series'        *)
(* category data id: it holds a c:strRef when the entry's first literal is *)
(* text and a c:numRef otherwise, and the point count of its cache is the  *)
(* number of literals of the entry.                                        *)
(* _write_cat reads the entry only `if data_id:`, which skips id 0.        *)
(***************************************************************************)
Within(i, name) == {j \in (i + 1)..(ElemEnd(out, i) - 1) : out[j].n = name /\ out[j].k # "end"}

CatFrom(i, data) ==
    /\ IF get_data_type(data) = "str"
       THEN KidsNamed(out, i, "c:strRef") # {} /\ KidsNamed(out, i, "c:numRef") = {}
       ELSE KidsNamed(out, i, "c:numRef") # {} /\ KidsNamed(out, i, "c:strRef") = {}
    /\ data # <<>> =>
           /\ Within(i, "c:ptCount") # {}
           /\ \A j \in Within(i, "c:ptCount") : Val(out, j) = ToString(Len(data[1]))

C26_CatDataById ==
    (Emitted /\ Len(chart.series) = 1 /\ Truthy(chart.series[1].categories)) =>
        /\ Cardinality(Named(out, "c:cat")) = 1
        /\ \A i \in Named(out, "c:cat") : CatFrom(i, CatCached(chart.series[1]))

(***************************************************************************)
(* C27: emitting a chart to which only series were added reads no field    *)
(* that is not set, and the document holds no title element.               *)
(* The constructor sets none of title_formula, cross_between and           *)
(* default_marker, which _write_chart, _write_cross_between and            *)
(* _write_marker read.                                                     *)
(***************************************************************************)
OnlySeries ==
    /\ Len(chart.series) >= 1
    /\ chart.title_formula = UNSET
    /\ chart.up_down_bars = <<>>
    /\ \A axis \in {chart.x_axis, chart.y_axis, chart.x2_axis, chart.y2_axis} : ~axis.configured

C27_FieldsInitialised ==
    (Emitted /\ OnlySeries) =>
        /\ "AttributeError: field not set" \notin faults
        /\ Named(out, "c:title") = {}

(***************************************************************************)
(* C28: in a document every series element stands before every axis        *)
(* element, and after emission cat_has_num_fmt, which the category axis    *)
(* read, is the value for the last series in plot order that has a         *)
(* category formula: 0 when the categories cached for it are text, 1 when  *)
(* they are not; it is 0 when no series has categories.                    *)
(* Text categories cached under id 0 are not read (C26): the flag is 1.    *)
(***************************************************************************)
WithCats == SelectSeq(PlotOrder, LAMBDA s : Truthy(s.categories))

FlagFor ==
    IF WithCats = <<>> THEN 0
    ELSE IF get_data_type(CatCached(WithCats[Len(WithCats)])) = "str" THEN 0
    ELSE 1

C28_FlagFromLastSeries ==
    Emitted =>
        /\ \A s \in Named(out, "c:ser") :
               \A a \in Named(out, "c:catAx") \cup Named(out, "c:valAx") : s < a
        /\ chart.cat_has_num_fmt = FlagFor

(***************************************************************************)
(* C29: the title in the element an axis writer writes is the title of the *)
(* axis it writes (the value axis for _write_val_axis, the category axis   *)
(* for the other three): a formula title holds that axis's formula and the *)
(* literals cached under that axis's data id, and a literal title's text   *)
(* is that axis's name.                                                    *)
(* _write_cat_val_axis passes the value axis's data id, and it and         *)
(* _write_date_axis pass the name font as the literal title's text.        *)
(***************************************************************************)
Literals(data_id) ==
    IF data_id = NoId \/ data_id + 1 > Len(chart.formula_data) THEN {}
    ELSE IF chart.formula_data[data_id + 1] = <<>> THEN {}
    ELSE {chart.formula_data[data_id + 1][1][k] :
              k \in 1..Len(chart.formula_data[data_id + 1][1])}

Texts(t, name) == {Val(out, j) : j \in Within(t, name)}

OwnTitle(t, axis) ==
    IF Given(axis.formula)
    THEN /\ Texts(t, "c:f") = {Val(write_series_formula(axis.formula).out, 1)}
         /\ Texts(t, "c:v") = Literals(axis.data_id)
    ELSE Texts(t, "a:t") = {axis.name}

C29_OwnTitle ==
    call.op \in AxisWriters =>
        \A i \in Named(out, "c:catAx") \cup Named(out, "c:valAx") \cup Named(out, "c:dateAx") :
            \A t \in KidsNamed(out, i, "c:title") : OwnTitle(t, OwnAxis)

(***************************************************************************)
(* C30: after set_size each of width, height, x_scale, y_scale, x_offset   *)
(* and y_offset is the option of its own name.                             *)
(* set_size stores the y_offset option in x_offset and leaves y_offset as  *)
(* it was.                                                                 *)
(***************************************************************************)
C30_SizeFromOwnOption ==
    call.op = "set_size" =>
        /\ chart.width = call.arg[1].width
        /\ chart.height = call.arg[1].height
        /\ chart.x_scale = call.arg[1].x_scale
        /\ chart.y_scale = call.arg[1].y_scale
        /\ chart.x_offset = call.arg[1].x_offset
        /\ chart.y_offset = call.arg[1].y_offset

====
